---- MODULE Spec2Model ----
(***************************************************************************)
(* Model of tools/market_data_manager.py (class MarketDataDB): the aligned *)
(* minute-bar store.  A DataFrame is a sequence of rows; a row carries its *)
(* index label idx (a UTC instant in milliseconds, shown in New York local *)
(* time) and its columns.  None and the empty DataFrame are both <<>>:     *)
(* every consumer modelled here tests "is None or .empty" together.        *)
(* The second part models tools/kafka_monitor_webapp.py: the module-level  *)
(* state of the dashboard, the Kafka consumer thread, the HTTP handlers    *)
(* and the replay threads.                                                 *)
(***************************************************************************)
EXTENDS Integers, Sequences, FiniteSets, TLC

VARIABLES
    csv,         \* symbol -> the tabular artifact <SYMBOL>_RTH_NH.csv
    bin,         \* symbol -> the binary artifact <SYMBOL>_RTH_NH.bin
    accepted,    \* symbol -> epochs persisted by some successful update_symbol
    clean,       \* symbol -> its artifacts are as completed saves left them
    calls,       \* number of update_symbol calls made
    last,        \* the last operation on one symbol: which, on what, its outcome
    raw_df,      \* filter_and_align: its argument
    aligned_df,  \* filter_and_align: its return value
    existing,    \* merge_data: argument existing
    new,         \* merge_data: argument new
    merged,      \* merge_data: returned DataFrame
    stats,       \* merge_data: returned stats dict
    fetch,       \* fetch_from_polygon: how the last paginated fetch went
    bin_df,      \* _read_binary_file: its return value
    dates,       \* list_trading_days: its return value
    report,      \* sanity_check, verify_integrity: the return value, the issues found
    batch,       \* the loop over symbols of main or of sync_all_symbols
    latest_prices,       \* symbol -> the last price entry
    price_history,       \* symbol -> the bars received, oldest first
    latest_portfolio,    \* the last portfolio snapshot
    latest_positions,    \* symbol -> the open position
    recent_trades,       \* the trades received, newest first
    recent_trade_ids,    \* the tradeIds seen
    heartbeat_status,    \* the last heartbeat
    market_time,         \* the time of the last message that carried tsET
    connection_info,     \* messageCount and lastByTopic
    message_count,       \* kafka_consumer_thread: its local counter
    sessions,            \* runId -> when the session was first and last seen
    active_session_id,   \* the session that is displayed ("" is None)
    auto_follow_latest,  \* whether the consumer switches sessions by itself
    response,            \* the last HTTP request: its argument, what was returned
    replay_state,        \* status, selectedDate, error
    replay_process,      \* the Popen object of the sidecar (0 is None)
    threads,             \* the replay threads in the order they were started
    processes,           \* the sidecar processes that are running
    pc           \* the operation that ran last

vars == <<csv, bin, accepted, clean, calls, last,
          raw_df, aligned_df, existing, new, merged, stats,
          fetch, bin_df, dates, report, batch,
          latest_prices, price_history, latest_portfolio, latest_positions,
          recent_trades, recent_trade_ids, heartbeat_status, market_time,
          connection_info, message_count, sessions, active_session_id,
          auto_follow_latest, response, replay_state, replay_process, threads,
          processes, pc>>

-----------------------------------------------------------------------------
(* Bounds of the model *)

MaxDay == 3      \* the days 0 .. MaxDay-1 are requested; the calendar ends a day later
MaxRaw == 2      \* raw bars in one filter_and_align input
MaxKeys == 4     \* distinct index labels in the merge_data inputs
MaxCalls == 2    \* update_symbol calls in one run
MaxSparse == 6   \* days of a synthetic tabular artifact
MaxMessages == 3 \* Kafka messages the consumer thread processes
MaxThreads == 3  \* replay threads started by the HTTP handlers

-----------------------------------------------------------------------------
(* Constants of the program *)

BARS_PER_DAY == 391

Minute == 60 * 1000                  \* milliseconds
DayMs == 24 * 60 * Minute
RTH_START == (9 * 60 + 30) * Minute  \* "09:30" as a time of day
RTH_END == 16 * 60 * Minute          \* "16:00" as a time of day
NYOffset == 5 * 60 * Minute          \* America/New_York is UTC-05:00 here

NaN == 0 - 1                         \* the missing value reindex puts in

Days == 0 .. (MaxDay - 1)

\* the calendar: the days a request can name, and the day after them, which
\* only the data of an earlier run covers
Calendar == 0 .. MaxDay

\* nyse_calendar.holidays().holidays: every third day of the model calendar
Holidays == {d \in Calendar : d % 3 = 1}

-----------------------------------------------------------------------------
(* Timestamps: tz_convert, normalize, date, strftime, to_datetime *)

Local(u) == u - NYOffset
DateOf(u) == Local(u) \div DayMs
TimeOfDay(u) == Local(u) % DayMs
Instant(d, tod) == d * DayMs + tod + NYOffset

\* index.strftime('%Y-%m-%dT%H:%M:%S%z') with the colon put into the offset:
\* date, whole seconds of the local time of day, offset in seconds
FormatTs(u) ==
    [date |-> DateOf(u), time |-> TimeOfDay(u) \div 1000, off |-> 0 - (NYOffset \div 1000)]

\* pd.to_datetime(ts_utc) followed by tz_convert(NY_TIMEZONE)
ParseTs(s) == (s.date * (DayMs \div 1000) + s.time - s.off) * 1000

\* index.tz_convert('UTC').astype('int64') // 10**9
EpochOf(u) == u \div 1000

-----------------------------------------------------------------------------
(* Sequences *)

Range(s) == {s[i] : i \in DOMAIN s}

\* F applied to the value of x, with x evaluated once (a local variable)
With(x, F(_)) == CHOOSE v \in {F(y) : y \in {x}} : TRUE

IndexSet(df) == {df[i].idx : i \in DOMAIN df}

\* the ascending sequence of a set of integers lying in lo .. hi
RECURSIVE SortSet(_, _, _)
SortSet(S, lo, hi) ==
    IF S = {} THEN <<>>
    ELSE IF Cardinality(S) = 1 THEN <<CHOOSE x \in S : TRUE>>
    ELSE LET mid == (lo + hi) \div 2
         IN SortSet({x \in S : x <= mid}, lo, mid)
              \o SortSet({x \in S : x > mid}, mid + 1, hi)

MaxInstant == (MaxDay + 1) * DayMs + NYOffset

-----------------------------------------------------------------------------
(* filter_and_align *)

\* mutant: the filter on the time of day left out
AnyTime(df) == df

\* df.between_time(RTH_START, RTH_END): both ends included
BetweenTime(df) ==
    SelectSeq(df, LAMBDA r : TimeOfDay(r.idx) >= RTH_START /\ TimeOfDay(r.idx) <= RTH_END)

\* mutant: the holiday filter left out
KeepHolidays(df) == df

\* df[~df.index.normalize().isin(holidays)]
DropHolidays(df) == SelectSeq(df, LAMBDA r : DateOf(r.idx) \notin Holidays)

\* mutant: the grid stops one minute early, at 15:59
DayRangeOpenEnd(d) ==
    [i \in 1 .. ((RTH_END - RTH_START) \div Minute) |->
        Instant(d, RTH_START + (i - 1) * Minute)]

\* pd.date_range(day 09:30, day 16:00, freq='1min')
DayRange(d) ==
    [i \in 1 .. ((RTH_END - RTH_START) \div Minute + 1) |->
        Instant(d, RTH_START + (i - 1) * Minute)]

\* DatetimeIndex.union: the sorted union of two sorted indexes
IndexUnion(a, b) ==
    IF a = <<>> THEN b
    ELSE IF b = <<>> THEN a
    ELSE IF a[Len(a)] < b[1] THEN a \o b
    ELSE IF b[Len(b)] < a[1] THEN b \o a
    ELSE SortSet(Range(a) \cup Range(b), 0, MaxInstant)

\* df.index.normalize().unique(): the days in order of first appearance
TradingDays(df) ==
    LET days == [i \in DOMAIN df |-> DateOf(df[i].idx)]
        first == SelectSeq([i \in DOMAIN df |-> i],
                           LAMBDA i : \A j \in 1 .. (i - 1) : days[j] # days[i])
    IN [k \in DOMAIN first |-> days[first[k]]]

\* the loop that unions one day_range per trading day into complete_index
RECURSIVE CompleteIndex(_)
CompleteIndex(days) ==
    IF days = <<>> THEN <<>>
    ELSE IndexUnion(CompleteIndex(SubSeq(days, 1, Len(days) - 1)),
                    DayRange(days[Len(days)]))

NaNRow(u) ==
    [idx |-> u, open |-> NaN, high |-> NaN, low |-> NaN, close |-> NaN, volume |-> NaN]

Columns(r, u) ==
    [idx |-> u, open |-> r.open, high |-> r.high, low |-> r.low,
     close |-> r.close, volume |-> r.volume]

\* mutant: the frame is not put onto the grid
NoReindex(df, index) == df

\* df.reindex(complete_index): the row with exactly that label, else NaN
Reindex(df, index) ==
    LET at == [u \in IndexSet(df) |-> CHOOSE i \in DOMAIN df : df[i].idx = u]
    IN [k \in DOMAIN index |->
           IF index[k] \in DOMAIN at THEN Columns(df[at[index[k]]], index[k])
           ELSE NaNRow(index[k])]

\* mutant: a fill that stops at the end of a day
FillRowSameDay(r, c) ==
    IF DateOf(r.idx) # DateOf(c.idx) THEN r
    ELSE [idx |-> r.idx,
          open |-> IF r.open = NaN THEN c.open ELSE r.open,
          high |-> IF r.high = NaN THEN c.high ELSE r.high,
          low |-> IF r.low = NaN THEN c.low ELSE r.low,
          close |-> IF r.close = NaN THEN c.close ELSE r.close,
          volume |-> IF r.volume = NaN THEN c.volume ELSE r.volume]

\* one row of a fill: each column that is NaN takes the carried row's value
FillRow(r, c) ==
    [idx |-> r.idx,
     open |-> IF r.open = NaN THEN c.open ELSE r.open,
     high |-> IF r.high = NaN THEN c.high ELSE r.high,
     low |-> IF r.low = NaN THEN c.low ELSE r.low,
     close |-> IF r.close = NaN THEN c.close ELSE r.close,
     volume |-> IF r.volume = NaN THEN c.volume ELSE r.volume]

\* mutant: no forward fill, so that bfill fills every gap
NoFfill(s) == s

\* DataFrame.ffill(): each column carries its last valid value forward
RECURSIVE Ffill(_)
Ffill(s) ==
    IF Len(s) <= 1 THEN s
    ELSE LET m == Len(s) \div 2
             L == Ffill(SubSeq(s, 1, m))
             R == Ffill(SubSeq(s, m + 1, Len(s)))
         IN L \o [i \in DOMAIN R |-> FillRow(R[i], L[m])]

\* DataFrame.bfill(): each column carries its next valid value backward
RECURSIVE Bfill(_)
Bfill(s) ==
    IF Len(s) <= 1 THEN s
    ELSE LET m == Len(s) \div 2
             L == Bfill(SubSeq(s, 1, m))
             R == Bfill(SubSeq(s, m + 1, Len(s)))
         IN [i \in DOMAIN L |-> FillRow(L[i], R[1])] \o R

\* the ts_utc and ts_epoch_utc columns computed from the index
WithTsColumns(df) ==
    [i \in DOMAIN df |->
        [idx |-> df[i].idx, open |-> df[i].open, high |-> df[i].high,
         low |-> df[i].low, close |-> df[i].close, volume |-> df[i].volume,
         ts_utc |-> FormatTs(df[i].idx), ts_epoch_utc |-> EpochOf(df[i].idx)]]

\* a raw row indexed by its timestamp: to_datetime(unit='ms', utc=True), set_index
RawIndexed(df) ==
    [i \in DOMAIN df |->
        [idx |-> df[i].timestamp_utc_ms, open |-> df[i].open, high |-> df[i].high,
         low |-> df[i].low, close |-> df[i].close, volume |-> df[i].volume]]

filter_and_align(df) ==
    IF df = <<>> THEN <<>>
    ELSE LET rth == DropHolidays(BetweenTime(RawIndexed(df)))
             complete_index == CompleteIndex(TradingDays(rth))
         IN WithTsColumns(Bfill(Ffill(Reindex(rth, complete_index))))

-----------------------------------------------------------------------------
(* merge_data *)

\* df[ohlcv_cols].copy(): the index and the five OHLCV columns
Clean(df) == [i \in DOMAIN df |-> Columns(df[i], df[i].idx)]

\* mutant: keep='first', the existing value wins on an overlap
RECURSIVE KeepFirst(_)
KeepFirst(df) ==
    IF Len(df) <= 1 THEN df
    ELSE LET m == Len(df) \div 2
             L == KeepFirst(SubSeq(df, 1, m))
             R == KeepFirst(SubSeq(df, m + 1, Len(df)))
             earlier == IndexSet(L)
         IN L \o SelectSeq(R, LAMBDA r : r.idx \notin earlier)

\* mutant: the duplicated rows are not removed
KeepDuplicates(df) == df

\* combined[~combined.index.duplicated(keep='last')]: a row stays unless its
\* label occurs again at a later position
RECURSIVE KeepLast(_)
KeepLast(df) ==
    IF Len(df) <= 1 THEN df
    ELSE LET m == Len(df) \div 2
             L == KeepLast(SubSeq(df, 1, m))
             R == KeepLast(SubSeq(df, m + 1, Len(df)))
             later == IndexSet(R)
         IN SelectSeq(L, LAMBDA r : r.idx \notin later) \o R

Ascending(df) == \A i \in 1 .. (Len(df) - 1) : df[i].idx < df[i + 1].idx

\* label -> row, for a frame whose labels are distinct
RECURSIVE ByIndex(_)
ByIndex(df) ==
    IF Len(df) = 1 THEN df[1].idx :> df[1]
    ELSE LET m == Len(df) \div 2
         IN ByIndex(SubSeq(df, 1, m)) @@ ByIndex(SubSeq(df, m + 1, Len(df)))

RECURSIVE Flatten(_)
Flatten(ss) == IF ss = <<>> THEN <<>> ELSE ss[1] \o Flatten(Tail(ss))

\* mutant: the result is left in concatenation order
NoSort(df) == df

\* combined.sort_index(): rows ascending by label, equal labels in their order
SortIndex(df) ==
    IF Len(df) <= 1 \/ Ascending(df) THEN df
    ELSE LET keys == SortSet(IndexSet(df), 0, MaxInstant)
         IN IF Len(keys) = Len(df)
            THEN LET at == ByIndex(df) IN [k \in DOMAIN keys |-> at[keys[k]]]
            ELSE Flatten([k \in DOMAIN keys |->
                              SelectSeq(df, LAMBDA r : r.idx = keys[k])])

\* index.min() and index.max()
RECURSIVE IndexMin(_)
IndexMin(df) ==
    IF Len(df) = 1 THEN df[1].idx
    ELSE LET m == Len(df) \div 2
             a == IndexMin(SubSeq(df, 1, m))
             b == IndexMin(SubSeq(df, m + 1, Len(df)))
         IN IF a <= b THEN a ELSE b

RECURSIVE IndexMax(_)
IndexMax(df) ==
    IF Len(df) = 1 THEN df[1].idx
    ELSE LET m == Len(df) \div 2
             a == IndexMax(SubSeq(df, 1, m))
             b == IndexMax(SubSeq(df, m + 1, Len(df)))
         IN IF a >= b THEN a ELSE b

\* get_date_range: (first date, last date) of a frame that is not empty
get_date_range(df) ==
    IF df = <<>> THEN <<>> ELSE <<DateOf(IndexMin(df)), DateOf(IndexMax(df))>>

\* mutant: every fetched bar is counted as added
StatsAllAdded(ex, nw, combined) ==
    [existing_bars |-> Len(ex), new_bars |-> Len(nw),
     added_bars |-> Len(nw),
     overlapping_bars |-> Len(ex) + Len(nw) - Len(combined),
     start_date |-> DateOf(IndexMin(combined)),
     end_date |-> DateOf(IndexMax(combined))]

\* the stats dict of the branch with existing data
MergeStats(ex, nw, combined) ==
    [existing_bars |-> Len(ex), new_bars |-> Len(nw),
     added_bars |-> Len(combined) - Len(ex),
     overlapping_bars |-> Len(ex) + Len(nw) - Len(combined),
     start_date |-> DateOf(IndexMin(combined)),
     end_date |-> DateOf(IndexMax(combined))]

\* the stats dict of the branch without existing data
NewOnlyStats(nw) ==
    [existing_bars |-> 0, new_bars |-> Len(nw),
     added_bars |-> Len(nw), overlapping_bars |-> 0,
     start_date |-> DateOf(IndexMin(nw)),
     end_date |-> DateOf(IndexMax(nw))]

\* mutant: the new data replaces the existing data
MergeReplacing(ex, nw) == <<nw, NewOnlyStats(nw)>>

\* merge_data(existing, new): <<merged frame, stats>>; new is never empty
merge_data(ex, nw) ==
    IF ex = <<>> THEN <<nw, NewOnlyStats(nw)>>
    ELSE LET combined == SortIndex(KeepLast(Clean(ex) \o Clean(nw)))
         IN <<combined, MergeStats(ex, nw, combined)>>

-----------------------------------------------------------------------------
(* The store: two artifacts per symbol *)

Symbols == {"SQQQ", "TQQQ"}

\* no file at that path
NoCsv == [exists |-> FALSE, rows |-> <<>>, torn |-> FALSE]
NoBin == [exists |-> FALSE, count |-> 0, recs |-> <<>>]

NoCall == [op |-> "none", symbol |-> "", returned |-> "none"]

NoStats == [added_bars |-> 0]

StoreIdle ==
    /\ csv = [s \in Symbols |-> NoCsv]
    /\ bin = [s \in Symbols |-> NoBin]
    /\ accepted = [s \in Symbols |-> {}]
    /\ clean = [s \in Symbols |-> TRUE]
    /\ calls = 0
    /\ last = NoCall

NoFetch == [pages |-> 0, failed_at |-> 0, bars |-> 0]

NoReport == [returned |-> "none", symbols |-> <<>>, all_errors |-> <<>>,
             csv_issues |-> <<>>, bin_issues |-> <<>>, mismatch_issues |-> <<>>,
             reference_date_range |-> <<>>]

\* mode: how main was started; symbols: the list the loop goes through; todo:
\* what is left of it; count: the calls of update_symbol that returned True;
\* called: the calls of update_symbol made in the loop
NoBatch == [op |-> "none", mode |-> "none", symbols |-> <<>>, todo |-> <<>>,
            range |-> <<>>, count |-> 0, called |-> 0, state |-> "idle"]

ToolsIdle ==
    fetch = NoFetch /\ bin_df = <<>> /\ dates = <<>> /\ report = NoReport /\ batch = NoBatch

AlignIdle == raw_df = <<>> /\ aligned_df = <<>>

MergeIdle == existing = <<>> /\ new = <<>> /\ merged = <<>> /\ stats = NoStats

storeVars == <<csv, bin, accepted, clean, calls, last>>
alignVars == <<raw_df, aligned_df>>
mergeVars == <<existing, new, merged, stats>>
toolVars == <<fetch, bin_df, dates, report, batch>>

\* the module-level state of kafka_monitor_webapp.py.  A dict that is looked
\* up by key is a function that gives <<>> for a key it does not hold.
MsgSymbols == {"TQQQ"}
RunIds == {"run-a", "run-b"}
TOPICS ==
    {"sentio.prices.minute.v1", "sentio.portfolio.minute.v1", "sentio.heartbeat.v1",
     "sentio.trades.executed.v1", "sentio.positions.state.v1"}

NoPrices == [s \in MsgSymbols |-> <<>>]
NoSessions == [r \in RunIds |-> <<>>]
NoMarketTime == <<[timestamp |-> 0]>>
NoHeartbeat == [status |-> "waiting", lastUpdate |-> 0]
NoConnection == [messageCount |-> 0, lastByTopic |-> [t \in TOPICS |-> 0]]
NoResponse == [handler |-> "none", arg |-> "", status |-> 0, body |-> "none"]
NoReplay == [status |-> "stopped", selectedDate |-> 0, error |-> "none"]

displayVars ==
    <<latest_prices, price_history, latest_portfolio, latest_positions,
      recent_trades, recent_trade_ids, heartbeat_status, market_time>>
sessionVars ==
    <<connection_info, message_count, sessions, active_session_id, auto_follow_latest>>
replayVars == <<replay_state, replay_process, threads, processes>>
webVars == <<displayVars, sessionVars, replayVars, response>>

DisplayIdle ==
    /\ latest_prices = NoPrices /\ price_history = NoPrices
    /\ latest_portfolio = <<>> /\ latest_positions = NoPrices
    /\ recent_trades = <<>> /\ recent_trade_ids = {}
    /\ heartbeat_status = NoHeartbeat /\ market_time = NoMarketTime

SessionsIdle ==
    /\ connection_info = NoConnection /\ message_count = 0
    /\ sessions = NoSessions /\ active_session_id = "" /\ auto_follow_latest = TRUE

ReplayIdle ==
    /\ replay_state = NoReplay /\ replay_process = 0
    /\ threads = <<>> /\ processes = {}

WebIdle == DisplayIdle /\ SessionsIdle /\ ReplayIdle /\ response = NoResponse

-----------------------------------------------------------------------------
(* read_existing_data, save_data, _save_binary *)

\* pd.read_csv, then ts_utc parsed and made the index.  A file that is
\* missing, empty or raises while being read gives None.
ReadCsv(f) ==
    IF ~f.exists \/ f.torn THEN <<>>
    ELSE [i \in DOMAIN f.rows |->
             [idx |-> ParseTs(f.rows[i].ts_utc),
              ts_epoch_utc |-> f.rows[i].ts_epoch_utc,
              open |-> f.rows[i].open, high |-> f.rows[i].high, low |-> f.rows[i].low,
              close |-> f.rows[i].close, volume |-> f.rows[i].volume]]

read_existing_data(symbol) == ReadCsv(csv[symbol])

HasTsColumns(df) ==
    df # <<>> /\ "ts_utc" \in DOMAIN df[1] /\ "ts_epoch_utc" \in DOMAIN df[1]

\* save_data: ts_utc and ts_epoch_utc are regenerated when the frame lacks them
Prepared(df) == IF HasTsColumns(df) THEN df ELSE WithTsColumns(df)

\* df[csv_columns].to_csv(csv_path, index=False), written completely
CsvOf(df) ==
    [exists |-> TRUE,
     rows |-> [i \in DOMAIN df |->
                  [ts_utc |-> df[i].ts_utc, ts_epoch_utc |-> df[i].ts_epoch_utc,
                   open |-> df[i].open, high |-> df[i].high, low |-> df[i].low,
                   close |-> df[i].close, volume |-> df[i].volume]],
     torn |-> FALSE]

\* int(row.volume), the volume counted in tenths of a share
IntOf(v) == (v \div 10) * 10

\* int(row.volume) raises ValueError on NaN
PackRaises(r) == r.volume = NaN

SaveRaises(df) == \E i \in DOMAIN df : PackRaises(df[i])

\* a record whose high and low are packed in each other's place
BinRecordSwapped(r) ==
    [ts_utc |-> r.ts_utc, ts_epoch_utc |-> r.ts_epoch_utc, open |-> r.open,
     high |-> r.low, low |-> r.high, close |-> r.close, volume |-> IntOf(r.volume)]

BinRecord(r) ==
    [ts_utc |-> r.ts_utc, ts_epoch_utc |-> r.ts_epoch_utc, open |-> r.open,
     high |-> r.high, low |-> r.low, close |-> r.close, volume |-> IntOf(r.volume)]

\* _save_binary: the count, then one record per row up to the first row that
\* cannot be packed; that row leaves its timestamp bytes behind
BinOf(df) ==
    LET bad == SelectSeq([i \in DOMAIN df |-> i], LAMBDA i : PackRaises(df[i]))
        written == IF bad = <<>> THEN Len(df) ELSE bad[1] - 1
    IN [exists |-> TRUE, count |-> Len(df),
        recs |-> [i \in 1 .. written |-> BinRecord(df[i])]]

\* where a write that fails part-way stops: after half of the rows
CutAt(n) == n \div 2

\* to_csv stopped part-way: the file ends inside a line (it no longer parses)
\* or at the end of a line (it reads as a shorter dataset)
CsvCut(df, torn) ==
    [exists |-> TRUE, rows |-> SubSeq(CsvOf(df).rows, 1, CutAt(Len(df))), torn |-> torn]

\* _save_binary stopped part-way
BinCut(df) ==
    LET recs == BinOf(df).recs
        n == IF CutAt(Len(df)) < Len(recs) THEN CutAt(Len(df)) ELSE Len(recs)
    IN [exists |-> TRUE, count |-> Len(df), recs |-> SubSeq(recs, 1, n)]

\* _read_binary_file: None when the file is missing, when a read comes back
\* short of the count in the header, and when the count is 0 (the frame built
\* from no rows has no ts_utc column, the KeyError is swallowed)
read_binary_file(b) ==
    IF ~b.exists \/ b.count > Len(b.recs) \/ b.count = 0 THEN <<>>
    ELSE [i \in 1 .. b.count |->
             [idx |-> ParseTs(b.recs[i].ts_utc),
              ts_epoch_utc |-> b.recs[i].ts_epoch_utc,
              open |-> b.recs[i].open, high |-> b.recs[i].high, low |-> b.recs[i].low,
              close |-> b.recs[i].close, volume |-> b.recs[i].volume]]

\* how the two writes of save_data can end
IOOutcomes == {"ok", "csv_torn", "csv_short", "bin_short"}

-----------------------------------------------------------------------------
(* list_all_symbols, sanity_check *)

\* the symbols in sorted order
SymbolOrder == <<"SQQQ", "TQQQ">>

\* the symbols that have a CSV file, sorted
list_all_symbols == SelectSeq(SymbolOrder, LAMBDA s : csv[s].exists)

\* offending days shown per artifact: csv_bad_days[:5]
ShownDays == 5

\* one entry of all_errors: the line naming the symbol and the kind of issue,
\* with the lines that follow it (the days shown, the number of days left out)
Issue(symbol, kind) == [symbol |-> symbol, kind |-> kind, days |-> <<>>, more |-> 0]

\* groupby(index.date).size(): dates ascending, each with its number of rows
PerDay(df) ==
    With([i \in DOMAIN df |-> DateOf(df[i].idx)], LAMBDA date :
        With(SortSet(Range(date), 0, DateOf(IndexMax(df))), LAMBDA ds :
            [k \in DOMAIN ds |->
                [date |-> ds[k],
                 count |-> Cardinality({i \in DOMAIN date : date[i] = ds[k]})]]))

\* a check of the days that finds every count in order
NoBadDays(df) == <<>>

\* the days whose count is not BARS_PER_DAY
BadDays(df) == SelectSeq(PerDay(df), LAMBDA e : e.count # BARS_PER_DAY)

BadDaysIssue(symbol, kind, bad) ==
    [symbol |-> symbol, kind |-> kind,
     days |-> SubSeq(bad, 1, IF Len(bad) > ShownDays THEN ShownDays ELSE Len(bad)),
     more |-> IF Len(bad) > ShownDays THEN Len(bad) - ShownDays ELSE 0]

\* a comparison with the reference that never reports
NeverDiffers(range, reference) == FALSE

\* csv_date_range != reference_date_range
DiffersFromReference(range, reference) == range # reference

\* the state of the loop of sanity_check before its first iteration
CheckStart ==
    [all_errors |-> <<>>, reference_date_range |-> <<>>, reference_days |-> 0,
     csv_issues |-> <<>>, bin_issues |-> <<>>, mismatch_issues |-> <<>>]

\* CHECK 1 on a readable CSV: total count, then count per day
CsvChecks(symbol, csv_df) ==
    LET csv_bars == Len(csv_df)
        csv_days == csv_bars \div BARS_PER_DAY
    IN (IF csv_bars # csv_days * BARS_PER_DAY
        THEN <<Issue(symbol, "csv_total")>> ELSE <<>>)
       \o With(BadDays(csv_df), LAMBDA bad :
              IF bad # <<>> THEN <<BadDaysIssue(symbol, "csv_bad_days", bad)>> ELSE <<>>)

\* CHECK 2 and CHECK 3: the binary file, then CSV against binary
BinChecks(symbol, csv_df) ==
    With(read_binary_file(bin[symbol]), LAMBDA bdf :
        LET bin_bars == Len(bdf)
            bin_days == bin_bars \div BARS_PER_DAY
        IN IF ~bin[symbol].exists THEN <<Issue(symbol, "bin_missing")>>
           ELSE IF bdf = <<>> THEN <<Issue(symbol, "bin_unreadable")>>
           ELSE (IF bin_bars # bin_days * BARS_PER_DAY
                 THEN <<Issue(symbol, "bin_total")>> ELSE <<>>)
                \o With(BadDays(bdf), LAMBDA bad :
                       IF bad # <<>>
                       THEN <<BadDaysIssue(symbol, "bin_bad_days", bad)>> ELSE <<>>)
                \o (IF Len(csv_df) # bin_bars
                    THEN <<Issue(symbol, "count_mismatch")>> ELSE <<>>)
                \o (IF get_date_range(csv_df) # get_date_range(bdf)
                    THEN <<Issue(symbol, "range_mismatch")>> ELSE <<>>))

CsvKinds == {"csv_missing", "csv_unreadable", "csv_total", "csv_bad_days"}
BinKinds == {"bin_missing", "bin_unreadable", "bin_total", "bin_bad_days"}
MismatchKinds == {"count_mismatch", "range_mismatch"}

\* the symbol, once for every issue of one of the kinds
Tagged(issues, kinds) ==
    LET sel == SelectSeq(issues, LAMBDA e : e.kind \in kinds)
    IN [k \in DOMAIN sel |-> sel[k].symbol]

\* one iteration of the loop over the symbols
CheckSymbol(symbol, st) ==
    With(read_existing_data(symbol), LAMBDA csv_df :
       IF ~csv[symbol].exists
       THEN [st EXCEPT !.all_errors = @ \o <<Issue(symbol, "csv_missing")>>,
                       !.csv_issues = @ \o <<symbol>>]
       ELSE IF csv_df = <<>>
       THEN [st EXCEPT !.all_errors = @ \o <<Issue(symbol, "csv_unreadable")>>,
                       !.csv_issues = @ \o <<symbol>>]
       ELSE With(get_date_range(csv_df), LAMBDA csv_date_range :
            With(CsvChecks(symbol, csv_df) \o BinChecks(symbol, csv_df), LAMBDA found :
            LET first == st.reference_date_range = <<>>
                cross == IF ~first /\ DiffersFromReference(csv_date_range,
                                                           st.reference_date_range)
                         THEN <<Issue(symbol, "reference_differs")>> ELSE <<>>
            IN [all_errors |-> st.all_errors \o found \o cross,
                reference_date_range |->
                    IF first THEN csv_date_range ELSE st.reference_date_range,
                reference_days |->
                    IF first THEN Len(csv_df) \div BARS_PER_DAY ELSE st.reference_days,
                csv_issues |-> st.csv_issues \o Tagged(found, CsvKinds),
                bin_issues |-> st.bin_issues \o Tagged(found, BinKinds),
                mismatch_issues |-> st.mismatch_issues \o Tagged(found, MismatchKinds)])))

\* a loop that leaves at the first symbol with an issue
RECURSIVE CheckUntilIssue(_, _)
CheckUntilIssue(symbols, st) ==
    IF symbols = <<>> \/ st.all_errors # <<>> THEN st
    ELSE With(CheckSymbol(Head(symbols), st), LAMBDA next :
             CheckUntilIssue(Tail(symbols), next))

\* for symbol in symbols
RECURSIVE CheckAll(_, _)
CheckAll(symbols, st) ==
    IF symbols = <<>> THEN st
    ELSE With(CheckSymbol(Head(symbols), st), LAMBDA next :
             CheckAll(Tail(symbols), next))

\* what sanity_check returns and reports
SanityReport ==
    With(list_all_symbols, LAMBDA symbols :
       IF symbols = <<>>
       THEN [NoReport EXCEPT !.returned = "False"]
       ELSE With(CheckAll(symbols, CheckStart), LAMBDA st :
            [returned |-> IF st.all_errors # <<>> THEN "False" ELSE "True",
             symbols |-> symbols, all_errors |-> st.all_errors,
             csv_issues |-> st.csv_issues, bin_issues |-> st.bin_issues,
             mismatch_issues |-> st.mismatch_issues,
             reference_date_range |-> st.reference_date_range]))

\* a check that deletes the tabular artifacts it cannot parse
RepairingCheck ==
    /\ report' = SanityReport
    /\ pc' = "sanity_check"
    /\ csv' = [s \in Symbols |-> IF csv[s].exists /\ ReadCsv(csv[s]) = <<>> THEN NoCsv
                                  ELSE csv[s]]
    /\ UNCHANGED <<bin, accepted, clean, calls, last, alignVars, mergeVars,
                   fetch, bin_df, dates, webVars, batch>>

sanity_check ==
    /\ report' = SanityReport
    /\ pc' = "sanity_check"
    /\ UNCHANGED <<storeVars, alignVars, mergeVars, fetch, bin_df, dates, webVars, batch>>

-----------------------------------------------------------------------------
(* list_trading_days *)

\* day.strftime('%Y-%m-%d'): the text of a date
FormatDate(d) == [date |-> d]

\* list_trading_days(symbol): symbol "" stands for None, which takes the
\* first symbol of list_all_symbols(); then the distinct days of that
\* symbol's index, sorted and formatted
list_trading_days(symbol) ==
    With(IF symbol = "" THEN list_all_symbols ELSE <<symbol>>, LAMBDA symbols :
        IF symbols = <<>> THEN <<>>
        ELSE With(read_existing_data(symbols[1]), LAMBDA df :
             IF df = <<>> THEN <<>>
             ELSE With(SortSet(Range(TradingDays(df)), 0, MaxDay), LAMBDA trading_days :
                  [k \in DOMAIN trading_days |-> FormatDate(trading_days[k])])))

-----------------------------------------------------------------------------
(* verify_integrity *)

\* the state of the loop of verify_integrity before its first iteration
IntegrityStart == [ok |-> TRUE, reference |-> <<>>, messages |-> <<>>]

\* one iteration: "has no data", "bars not equal to days x 391", "days/bars
\* mismatch vs ref"; the first symbol with data gives reference_days and
\* reference_bars
IntegritySymbol(symbol, st) ==
    With(Len(read_existing_data(symbol)), LAMBDA bars :
       LET days == bars \div BARS_PER_DAY
           partial == IF bars # days * BARS_PER_DAY
                      THEN <<Issue(symbol, "bars_not_whole_days")>> ELSE <<>>
           differs == IF st.reference # <<>> /\ st.reference # <<days, bars>>
                      THEN <<Issue(symbol, "differs_from_ref")>> ELSE <<>>
       IN IF bars = 0
          THEN [st EXCEPT !.ok = FALSE, !.messages = @ \o <<Issue(symbol, "no_data")>>]
          ELSE [ok |-> st.ok /\ partial = <<>> /\ differs = <<>>,
                reference |-> IF st.reference = <<>> THEN <<days, bars>> ELSE st.reference,
                messages |-> st.messages \o partial \o differs])

RECURSIVE IntegrityAll(_, _)
IntegrityAll(symbols, st) ==
    IF symbols = <<>> THEN st
    ELSE With(IntegritySymbol(Head(symbols), st), LAMBDA next :
             IntegrityAll(Tail(symbols), next))

\* what verify_integrity(symbols) returns and prints
IntegrityReport(symbols) ==
    With(IntegrityAll(symbols, IntegrityStart), LAMBDA st :
        [NoReport EXCEPT !.returned = IF st.ok THEN "True" ELSE "False",
                         !.symbols = symbols, !.all_errors = st.messages])

verify_integrity(symbols) ==
    /\ report' = IntegrityReport(symbols)
    /\ pc' = "verify_integrity"
    /\ UNCHANGED <<storeVars, alignVars, mergeVars, fetch, bin_df, dates, webVars, batch>>

-----------------------------------------------------------------------------
(* Inputs: what fetch_from_polygon can return *)

\* the k-th bar of a response at price level p: five distinct numbers
Bar(p, k) ==
    [open |-> 100 * p + 10 * k + 2, high |-> 100 * p + 10 * k + 4,
     low |-> 100 * p + 10 * k + 1, close |-> 100 * p + 10 * k + 3,
     volume |-> 1000 * p + 100 * k]

\* times of day a raw bar may carry: 09:29, 09:30, 09:30:30, 15:59, 16:00, 16:00:30
RawTimes ==
    {RTH_START - Minute, RTH_START, RTH_START + (Minute \div 2),
     RTH_END - Minute, RTH_END, RTH_END + (Minute \div 2)}

RawStamps == {Instant(d, t) : d \in Days, t \in RawTimes}

RECURSIVE SubsetsUpTo(_, _)
SubsetsUpTo(S, k) ==
    IF k = 0 THEN {{}}
    ELSE LET smaller == SubsetsUpTo(S, k - 1)
         IN smaller \cup {T \cup {x} : T \in smaller, x \in S}

\* a response: rows ascending by timestamp (sort=asc), timestamps distinct
RawFrame(S, p) ==
    LET ts == SortSet(S, 0, MaxInstant)
    IN [i \in DOMAIN ts |->
           [timestamp_utc_ms |-> ts[i], open |-> Bar(p, i).open, high |-> Bar(p, i).high,
            low |-> Bar(p, i).low, close |-> Bar(p, i).close, volume |-> Bar(p, i).volume]]

RawInputs == {RawFrame(S, 1) : S \in SubsetsUpTo(RawStamps, MaxRaw)}

\* share volume reported with a fractional part (half a share)
Fractional(df) == [i \in DOMAIN df |-> [df[i] EXCEPT !.volume = @ + 5]]

-----------------------------------------------------------------------------
(* filter_and_align applied to every bounded input *)

InitAlign ==
    /\ StoreIdle /\ MergeIdle /\ ToolsIdle /\ WebIdle
    /\ raw_df \in RawInputs
    /\ aligned_df = <<>>
    /\ pc = "start"

Align ==
    /\ pc = "start"
    /\ aligned_df' = filter_and_align(raw_df)
    /\ pc' = "aligned"
    /\ UNCHANGED <<raw_df, storeVars, mergeVars, toolVars, webVars>>

NextAlign == Align

SpecAlign == InitAlign /\ [][NextAlign]_vars

-----------------------------------------------------------------------------
(* Properties of filter_and_align *)

InWindow(ms) == TimeOfDay(ms) >= RTH_START /\ TimeOfDay(ms) <= RTH_END

\* the dates that are no holiday and have a raw bar inside 09:30-16:00
ObservedDays(raw) ==
    {DateOf(raw[i].timestamp_utc_ms) :
        i \in {j \in DOMAIN raw : InWindow(raw[j].timestamp_utc_ms)}} \ Holidays

DayRows(df, d) == SelectSeq(df, LAMBDA r : DateOf(r.idx) = d)

DaysIn(df) == {DateOf(df[i].idx) : i \in DOMAIN df}

OHLC(r) == <<r.open, r.high, r.low, r.close>>

MaxOf(S) == CHOOSE x \in S : \A y \in S : y <= x
MinOf(S) == CHOOSE x \in S : \A y \in S : x <= y

RawAt(u) == raw_df[CHOOSE i \in DOMAIN raw_df : raw_df[i].timestamp_utc_ms = u]

\* the grid slots that have a raw bar at exactly that minute
Matched == {raw_df[i].timestamp_utc_ms : i \in DOMAIN raw_df} \cap IndexSet(aligned_df)

\* C8 (grid completeness): every non-holiday day with a raw bar inside the
\* window has exactly 391 output bars, at 09:30, 09:31, ..., 16:00.
C8_GridCompleteness ==
    pc = "aligned" =>
        \A d \in ObservedDays(raw_df) :
            LET rows == DayRows(aligned_df, d)
            IN /\ Len(rows) = BARS_PER_DAY
               /\ TimeOfDay(rows[1].idx) = RTH_START
               /\ TimeOfDay(rows[Len(rows)].idx) = RTH_END
               /\ \A i \in 1 .. (Len(rows) - 1) : rows[i + 1].idx = rows[i].idx + Minute

\* two observed days, one of them seen only through an off-minute bar
C8_Witness ==
    /\ pc = "aligned"
    /\ Cardinality(ObservedDays(raw_df)) = 2
    /\ \E i \in DOMAIN raw_df : TimeOfDay(raw_df[i].timestamp_utc_ms) % Minute # 0
    /\ Len(aligned_df) = 2 * BARS_PER_DAY

\* the scenario of the claim: one day, raw bars only at 09:30 and 15:59
Scenario0930_1559 ==
    /\ Len(raw_df) = 2
    /\ DateOf(raw_df[1].timestamp_utc_ms) = DateOf(raw_df[2].timestamp_utc_ms)
    /\ TimeOfDay(raw_df[1].timestamp_utc_ms) = RTH_START
    /\ TimeOfDay(raw_df[2].timestamp_utc_ms) = RTH_END - Minute
    /\ DateOf(raw_df[1].timestamp_utc_ms) \notin Holidays

\* C9 (fill policy): a slot with a raw bar at exactly its minute carries that
\* bar's OHLC; any other slot carries the OHLC of the nearest preceding slot
\* that has a raw bar, and only if there is none, that of the nearest
\* following one.  With bars only at 09:30 and 15:59, slots 09:31..15:58
\* carry the 09:30 OHLC and slot 16:00 carries the 15:59 OHLC.
C9_FillPolicy ==
    pc = "aligned" =>
        /\ LET M == Matched IN \A k \in DOMAIN aligned_df :
              LET u == aligned_df[k].idx
                  before == {m \in M : m < u}
                  after == {m \in M : m > u}
              IN IF u \in M THEN OHLC(aligned_df[k]) = OHLC(RawAt(u))
                 ELSE IF before # {} THEN OHLC(aligned_df[k]) = OHLC(RawAt(MaxOf(before)))
                 ELSE after # {} => OHLC(aligned_df[k]) = OHLC(RawAt(MinOf(after)))
        /\ Scenario0930_1559 =>
              /\ Len(aligned_df) = BARS_PER_DAY
              /\ \A k \in 2 .. (BARS_PER_DAY - 2) : OHLC(aligned_df[k]) = OHLC(raw_df[1])
              /\ OHLC(aligned_df[BARS_PER_DAY - 1]) = OHLC(raw_df[2])
              /\ OHLC(aligned_df[BARS_PER_DAY]) = OHLC(raw_df[2])

\* the 09:30 / 15:59 scenario has been aligned, both fills of it done
C9_Witness ==
    /\ pc = "aligned"
    /\ Scenario0930_1559
    /\ Len(aligned_df) = BARS_PER_DAY
    /\ OHLC(aligned_df[2]) = OHLC(raw_df[1])
    /\ OHLC(aligned_df[BARS_PER_DAY]) = OHLC(raw_df[2])

\* a leading gap filled backward: the only raw bar of the input is at 15:59
C9_WitnessBackfill ==
    /\ pc = "aligned"
    /\ Len(raw_df) = 1
    /\ TimeOfDay(raw_df[1].timestamp_utc_ms) = RTH_END - Minute
    /\ Len(aligned_df) = BARS_PER_DAY
    /\ OHLC(aligned_df[1]) = OHLC(raw_df[1])

-----------------------------------------------------------------------------
(* update_symbol over the store *)

\* the bars the provider holds for a day, by time of day
FeedTimes(d) ==
    CASE d % 3 = 0 -> {RTH_START - Minute, RTH_START, RTH_END - Minute}
      [] d % 3 = 1 -> {RTH_START}
      [] OTHER -> {RTH_START + (Minute \div 2), RTH_END}

Feed(a, b) == UNION {{Instant(d, t) : t \in FeedTimes(d)} : d \in a .. b}

\* the responses to a request: the feed of a date range, one off-minute bar,
\* or a day's feed with fractional volumes; p is the revision of the
\* (adjusted) prices
FetchResults(p) ==
    {RawFrame(Feed(a, b), p) : a \in Days, b \in Days}
        \cup {RawFrame({Instant(0, RTH_START + (Minute \div 2))}, p)}
        \cup {Fractional(RawFrame(Feed(0, 0), p))}

EpochsOf(f) == {f.rows[i].ts_epoch_utc : i \in DOMAIN f.rows}

Returned(symbol, r) == [op |-> "update_symbol", symbol |-> symbol, returned |-> r]

\* update_symbol(symbol, start_date, end_date, api_key) with fetch_from_polygon
\* returning raw (<<>> for None) and the writes of save_data ending as io
update_symbol(symbol, raw, io) ==
    /\ calls < MaxCalls
    /\ calls' = calls + 1
    /\ pc' = "update_symbol"
    /\ raw_df' = raw
    /\ \E existing_df \in {read_existing_data(symbol)}, aligned \in {filter_and_align(raw)} :
       \E m \in {IF aligned = <<>> THEN <<>> ELSE merge_data(existing_df, aligned)} :
       \E df \in {IF aligned = <<>> THEN <<>> ELSE Prepared(m[1])} :
          IF raw = <<>> \/ aligned = <<>>
          THEN \* "No data fetched" / "No data remaining after filtering"
               /\ io = "ok"
               /\ aligned_df' = aligned
               /\ existing' = <<>> /\ new' = <<>> /\ merged' = <<>> /\ stats' = NoStats
               /\ last' = Returned(symbol, "False")
               /\ UNCHANGED <<csv, bin, accepted, clean>>
          ELSE /\ aligned_df' = aligned
               /\ existing' = existing_df /\ new' = aligned
               /\ merged' = m[1] /\ stats' = m[2]
               /\ IF io = "ok" /\ ~SaveRaises(df)
                  THEN /\ csv' = [csv EXCEPT ![symbol] = CsvOf(df)]
                       /\ bin' = [bin EXCEPT ![symbol] = BinOf(df)]
                       /\ accepted' = [accepted EXCEPT
                                          ![symbol] = @ \cup EpochsOf(CsvOf(df))]
                       /\ last' = Returned(symbol, "True")
                       /\ clean' = clean
                  ELSE /\ csv' = [csv EXCEPT ![symbol] =
                                     IF io = "csv_torn" THEN CsvCut(df, TRUE)
                                     ELSE IF io = "csv_short" THEN CsvCut(df, FALSE)
                                     ELSE CsvOf(df)]
                       /\ bin' = [bin EXCEPT ![symbol] =
                                     IF io \in {"csv_torn", "csv_short"} THEN @
                                     ELSE IF io = "bin_short" THEN BinCut(df)
                                     ELSE BinOf(df)]
                       /\ last' = Returned(symbol, "raised")
                       /\ clean' = [clean EXCEPT ![symbol] = FALSE]
                       /\ UNCHANGED accepted

Init ==
    /\ StoreIdle /\ AlignIdle /\ MergeIdle /\ ToolsIdle /\ WebIdle
    /\ pc = "init"

Next ==
    \E symbol \in Symbols, raw \in FetchResults(calls + 1) \cup {<<>>}, io \in IOOutcomes :
        update_symbol(symbol, raw, io) /\ UNCHANGED <<toolVars, webVars>>

Spec == Init /\ [][Next]_vars

-----------------------------------------------------------------------------
(* merge_data applied to every bounded pair of datasets *)

\* the labels of the merge inputs: the last minutes of day 0, the first of day 2
MergeKey(i) ==
    LET h == MaxKeys \div 2
    IN IF i <= h THEN Instant(0, RTH_END - (h - i) * Minute)
       ELSE Instant(2, RTH_START + (i - h - 1) * Minute)

Levels == {1, 2}

\* a dataset: some of the labels, each with the bar of one of two price levels
Assignments == UNION {[K -> Levels] : K \in SUBSET (1 .. MaxKeys)}

Dataset(f) ==
    LET ks == SortSet(DOMAIN f, 1, MaxKeys)
    IN WithTsColumns([j \in DOMAIN ks |->
           [idx |-> MergeKey(ks[j]), open |-> Bar(f[ks[j]], ks[j]).open,
            high |-> Bar(f[ks[j]], ks[j]).high, low |-> Bar(f[ks[j]], ks[j]).low,
            close |-> Bar(f[ks[j]], ks[j]).close, volume |-> Bar(f[ks[j]], ks[j]).volume]])

\* existing is what read_existing_data gives for a saved dataset (None when
\* there is none); new is an aligned frame that is not empty
InitMerge ==
    /\ StoreIdle /\ AlignIdle /\ ToolsIdle /\ WebIdle
    /\ existing \in {ReadCsv(CsvOf(Dataset(f))) : f \in Assignments}
    /\ new \in {Dataset(f) : f \in Assignments} \ {<<>>}
    /\ merged = <<>>
    /\ stats = NoStats
    /\ pc = "start"

Merge ==
    /\ pc = "start"
    /\ merged' = merge_data(existing, new)[1]
    /\ stats' = merge_data(existing, new)[2]
    /\ pc' = "merged"
    /\ UNCHANGED <<existing, new, storeVars, alignVars, toolVars, webVars>>

NextMerge == Merge

SpecMerge == InitMerge /\ [][NextMerge]_vars

-----------------------------------------------------------------------------
(* _save_binary followed by _read_binary_file on every bounded dataset *)

\* a dataset none of whose values is known (a reindex that matched no bar)
Unfilled(df) ==
    [i \in DOMAIN df |-> [df[i] EXCEPT !.open = NaN, !.high = NaN, !.low = NaN,
                                         !.close = NaN, !.volume = NaN]]

BinaryInputs ==
    LET ds == {Dataset(f) : f \in Assignments}
    IN ds \cup {Fractional(d) : d \in ds} \cup {Unfilled(d) : d \in ds}

InitBinary ==
    /\ StoreIdle /\ AlignIdle /\ ToolsIdle /\ WebIdle
    /\ existing = <<>> /\ new = <<>> /\ stats = NoStats
    /\ merged \in BinaryInputs
    /\ pc = "start"

\* self._save_binary(df, bin_path), which raises at the first NaN volume
SaveBinary(symbol) ==
    /\ pc = "start"
    /\ bin' = [bin EXCEPT ![symbol] = BinOf(merged)]
    /\ pc' = IF SaveRaises(merged) THEN "_save_binary raised" ELSE "_save_binary"
    /\ UNCHANGED <<csv, accepted, clean, calls, last, alignVars, mergeVars, toolVars, webVars>>

ReadBinary(symbol) ==
    /\ pc \in {"_save_binary", "_save_binary raised"}
    /\ bin[symbol].exists
    /\ bin_df' = read_binary_file(bin[symbol])
    /\ pc' = IF pc = "_save_binary" THEN "_read_binary_file" ELSE "read after raise"
    /\ UNCHANGED <<storeVars, alignVars, mergeVars, fetch, dates, webVars, report, batch>>

NextBinary == \E symbol \in Symbols : SaveBinary(symbol) \/ ReadBinary(symbol)

SpecBinary == InitBinary /\ [][NextBinary]_vars

-----------------------------------------------------------------------------
(* Properties of merge_data *)

OHLCVOf(r) == <<r.open, r.high, r.low, r.close, r.volume>>

RowAt(df, u) == df[CHOOSE i \in DOMAIN df : df[i].idx = u]

\* C2 (merge append-only): every label of existing is a label of the result.
C2_MergeAppendOnly ==
    pc = "merged" => IndexSet(existing) \subseteq IndexSet(merged)

\* existing data whose labels are partly overlapped by new, all of them kept
C2_Witness ==
    /\ pc = "merged"
    /\ IndexSet(existing) \cap IndexSet(new) # {}
    /\ IndexSet(existing) \ IndexSet(new) # {}
    /\ IndexSet(new) \ IndexSet(existing) # {}
    /\ IndexSet(existing) \subseteq IndexSet(merged)

\* C3 (last-write-wins): at a label of new the result carries new's OHLCV,
\* at a label of existing alone it carries existing's, and it has no other label.
C3_LastWriteWins ==
    pc = "merged" =>
        /\ IndexSet(merged) = IndexSet(existing) \cup IndexSet(new)
        /\ \A i \in DOMAIN merged :
              LET u == merged[i].idx
              IN IF u \in IndexSet(new)
                 THEN OHLCVOf(merged[i]) = OHLCVOf(RowAt(new, u))
                 ELSE OHLCVOf(merged[i]) = OHLCVOf(RowAt(existing, u))

\* a label in both inputs with different values: the result has new's value
C3_Witness ==
    /\ pc = "merged"
    /\ \E u \in IndexSet(existing) \cap IndexSet(new) :
          /\ OHLCVOf(RowAt(existing, u)) # OHLCVOf(RowAt(new, u))
          /\ OHLCVOf(RowAt(merged, u)) = OHLCVOf(RowAt(new, u))
    /\ IndexSet(existing) \ IndexSet(new) # {}

SameData(a, b) ==
    /\ Len(a) = Len(b)
    /\ \A i \in DOMAIN a : a[i].idx = b[i].idx /\ OHLCVOf(a[i]) = OHLCVOf(b[i])

\* C4 (merge idempotence): merging a dataset into itself adds nothing,
\* overlaps everything and returns the same labels, order and values.
C4_MergeIdempotence ==
    (pc = "merged" /\ existing # <<>> /\ SameData(existing, new)) =>
        /\ stats.added_bars = 0
        /\ stats.overlapping_bars = Len(existing)
        /\ SameData(merged, existing)

\* a dataset of several bars has been merged into itself
C4_Witness ==
    /\ pc = "merged"
    /\ Len(existing) >= 2
    /\ SameData(existing, new)
    /\ stats.added_bars = 0
    /\ SameData(merged, new)

\* C5 (merge statistics): without existing data the result is new itself,
\* added = |new| and overlap = 0; otherwise added = |union| - |existing| and
\* overlap = |existing| + |new| - |union|, so that added >= 0, overlap is the
\* number of common labels and |result| = |existing| + added.
C5_MergeStatistics ==
    pc = "merged" =>
        LET union == IndexSet(existing) \cup IndexSet(new)
        IN IF existing = <<>>
           THEN /\ merged = new
                /\ stats.added_bars = Len(new)
                /\ stats.overlapping_bars = 0
           ELSE /\ stats.added_bars = Cardinality(union) - Len(existing)
                /\ stats.overlapping_bars = Len(existing) + Len(new) - Cardinality(union)
                /\ stats.added_bars >= 0
                /\ stats.overlapping_bars = Cardinality(IndexSet(existing) \cap IndexSet(new))
                /\ Len(merged) = Len(existing) + stats.added_bars

\* a merge that both adds bars and overlaps bars
C5_Witness ==
    /\ pc = "merged"
    /\ existing # <<>>
    /\ stats.added_bars > 0
    /\ stats.overlapping_bars > 0
    /\ Len(merged) = Len(existing) + stats.added_bars

-----------------------------------------------------------------------------
(* Properties of the store under update_symbol *)

\* C1 (store-level append-only): every epoch persisted by a successful
\* update_symbol is in the tabular artifact after every later call, whether
\* that call succeeds, fails at fetch, fails at persist or finds the file
\* unreadable.
C1_StoreAppendOnly ==
    \A s \in Symbols : accepted[s] \subseteq EpochsOf(csv[s])

EpochsIncreasing(rows) ==
    \A i \in 1 .. (Len(rows) - 1) : rows[i].ts_epoch_utc < rows[i + 1].ts_epoch_utc

\* C6 (epoch ordering): after any sequence of updates the epochs of every
\* symbol's tabular artifact are strictly increasing, and so are the labels
\* of every frame merge_data returned, with or without existing data.
C6_EpochOrdering ==
    /\ \A s \in Symbols : EpochsIncreasing(csv[s].rows)
    /\ \A i \in 1 .. (Len(merged) - 1) : merged[i].idx < merged[i + 1].idx

\* a backfill: the new data lies before the existing data, and is saved
C6_Witness ==
    /\ last.returned = "True"
    /\ existing # <<>>
    /\ new[Len(new)].idx < existing[1].idx
    /\ Len(csv[last.symbol].rows) = Len(existing) + Len(new)
    /\ EpochsIncreasing(csv[last.symbol].rows)

\* the rows of a tabular artifact that carry date d
CsvDayRows(f, d) == SelectSeq(f.rows, LAMBDA r : r.ts_utc.date = d)

CsvDays(f) == {f.rows[i].ts_utc.date : i \in DOMAIN f.rows}

WholeDays(f) ==
    /\ Len(f.rows) % BARS_PER_DAY = 0
    /\ \A d \in CsvDays(f) :
          LET rows == CsvDayRows(f, d)
          IN /\ Len(rows) = BARS_PER_DAY
             /\ rows[1].ts_utc.time * 1000 = RTH_START
             /\ rows[Len(rows)].ts_utc.time * 1000 = RTH_END
             /\ \A i \in 1 .. (Len(rows) - 1) :
                   rows[i + 1].ts_utc.time = rows[i].ts_utc.time + 60

\* C7 (whole days): while every update_symbol call for a symbol has gone
\* through, each day in its tabular artifact has exactly 391 bars, one per
\* minute from 09:30 to 16:00, and the bar count is a multiple of 391.
C7_WholeDays ==
    \A s \in Symbols : clean[s] => WholeDays(csv[s])

\* two successful updates of one symbol have left two whole days
C7_Witness ==
    /\ calls = 2
    /\ last.returned = "True"
    /\ clean[last.symbol]
    /\ existing # <<>>
    /\ Cardinality(CsvDays(csv[last.symbol])) = 2
    /\ Len(csv[last.symbol].rows) = 2 * BARS_PER_DAY

-----------------------------------------------------------------------------
(* Properties of save_data *)

ValuesOf(r) ==
    <<r.ts_epoch_utc, r.open, r.high, r.low, r.close, r.volume>>

\* the two artifacts hold the same bars: as many, and bar for bar the same
\* epoch, open, high, low, close and volume (hence the same order and the
\* same first and last date)
SameBars(f, b) ==
    LET csv_df == ReadCsv(f)
        bdf == read_binary_file(b)
    IN /\ Len(csv_df) = Len(bdf)
       /\ \A i \in DOMAIN csv_df : ValuesOf(csv_df[i]) = ValuesOf(bdf[i])
       /\ get_date_range(csv_df) = get_date_range(bdf)

\* C12: after a save_data call that returned (update_symbol returned True),
\* the tabular and the binary artifact of the symbol hold the same bars.
C12_DualArtifacts ==
    (pc = "update_symbol" /\ last.returned = "True") =>
        SameBars(csv[last.symbol], bin[last.symbol])

-----------------------------------------------------------------------------
(* update_symbol, sanity_check and verify_integrity, called one after another *)

\* the responses of the provider in these runs: day 0, or days 0 to 2
CheckedFetches(p) == {RawFrame(Feed(0, 0), p), RawFrame(Feed(0, MaxDay - 1), p), <<>>}

\* main with --symbols <symbol> --start .. --end .. --no-sync
RunUpdate(symbol, raw, io) ==
    /\ update_symbol(symbol, raw, io)
    /\ report' = NoReport
    /\ UNCHANGED <<fetch, bin_df, dates, webVars, batch>>

\* main with --sanity-check
RunSanityCheck ==
    /\ pc # "sanity_check"
    /\ sanity_check

\* the lists verify_integrity is called with: the symbols that have a CSV
\* file, or the configured symbols
IntegrityLists == {list_all_symbols, SymbolOrder} \ {<<>>}

\* db.verify_integrity(symbols)
RunVerifyIntegrity(symbols) ==
    /\ pc # "verify_integrity"
    /\ verify_integrity(symbols)

NextChecked ==
    \/ \E symbol \in Symbols, raw \in CheckedFetches(calls + 1), io \in IOOutcomes :
           RunUpdate(symbol, raw, io)
    \/ RunSanityCheck
    \/ \E symbols \in IntegrityLists : RunVerifyIntegrity(symbols)

SpecChecked == Init /\ [][NextChecked]_vars

Names(issues, symbol) == \E k \in DOMAIN issues : issues[k].symbol = symbol

\* C13: when the last update_symbol of a symbol raised inside save_data, the
\* pair it left is not taken for a valid dataset: a sanity_check run next
\* returns False with an issue for that symbol, and an update_symbol run next
\* for that symbol does not merge into what it reads from the CSV.
C13_AllOrNothing ==
    [][/\ (last.returned = "raised" /\ pc' = "sanity_check") =>
              (report'.returned = "False" /\ Names(report'.all_errors, last.symbol))
       /\ (last.returned = "raised" /\ calls' = calls + 1 /\ last'.symbol = last.symbol) =>
              existing' = <<>>]_vars

-----------------------------------------------------------------------------
(* fetch_from_polygon page by page; the loops of main and sync_all_symbols *)

\* the provider's answer to a request for days a .. b, one page per day that
\* has bars; a request that matches nothing gets one page without results
ProviderPages(a, b, p) ==
    LET df == RawFrame(Feed(a, b), p)
        ds == SortSet({DateOf(df[i].timestamp_utc_ms) : i \in DOMAIN df}, 0, MaxDay)
    IN IF df = <<>> THEN << <<>> >>
       ELSE [k \in DOMAIN ds |->
                SelectSeq(df, LAMBDA r : DateOf(r.timestamp_utc_ms) = ds[k])]

\* a fetch that returns the bars of the pages read before the failure
FetchKeepsPages(pages, fail_at) ==
    IF fail_at = 0 THEN Flatten(pages) ELSE Flatten(SubSeq(pages, 1, fail_at - 1))

\* fetch_from_polygon: requests.get raises on page fail_at (0: on none); any
\* exception returns None, as does an answer without bars
fetch_from_polygon(pages, fail_at) ==
    IF fail_at # 0 THEN <<>> ELSE Flatten(pages)

\* pages requested, the page that failed, bars in all_bars when the loop ended
FetchCourse(pages, fail_at) ==
    [pages |-> Len(pages), failed_at |-> fail_at,
     bars |-> Len(Flatten(SubSeq(pages, 1,
                  IF fail_at = 0 THEN Len(pages) ELSE fail_at - 1)))]

\* update_symbol(symbol, start_date = a, end_date = b, api_key)
UpdateRange(symbol, a, b, fail_at, io) ==
    \E pages \in {ProviderPages(a, b, calls + 1)} :
       /\ fail_at \in 0 .. Len(pages)
       /\ update_symbol(symbol, fetch_from_polygon(pages, fail_at), io)
       /\ fetch' = FetchCourse(pages, fail_at)

\* a loop body that keeps the range of the first symbol that has data
GlobalRangeOfFirst(symbol, st) ==
    With(get_date_range(read_existing_data(symbol)), LAMBDA symbol_range :
        IF st = <<>> THEN symbol_range ELSE st)

\* get_global_date_range, one iteration: st is <<min_date, max_date>>, or <<>>
\* while both are None
GlobalRangeStep(symbol, st) ==
    With(get_date_range(read_existing_data(symbol)), LAMBDA symbol_range :
        IF symbol_range = <<>> THEN st
        ELSE IF st = <<>> THEN symbol_range
        ELSE <<IF symbol_range[1] < st[1] THEN symbol_range[1] ELSE st[1],
               IF symbol_range[2] > st[2] THEN symbol_range[2] ELSE st[2]>>)

RECURSIVE GlobalRangeLoop(_, _)
GlobalRangeLoop(symbols, st) ==
    IF symbols = <<>> THEN st
    ELSE With(GlobalRangeStep(Head(symbols), st), LAMBDA next :
             GlobalRangeLoop(Tail(symbols), next))

\* get_global_date_range: None when no symbol has readable data
get_global_date_range(symbols) == GlobalRangeLoop(symbols, <<>>)

\* the loop after one call of update_symbol: an exception raised in the call
\* leaves the loop and the program; True is counted
AfterCall(returned) ==
    IF returned = "raised" THEN [batch EXCEPT !.state = "aborted", !.called = @ + 1]
    ELSE [batch EXCEPT !.todo = Tail(@), !.called = @ + 1,
                       !.count = IF returned = "True" THEN @ + 1 ELSE @]

\* main: success_count = 0; for symbol in symbols_for_update
StartUpdates(a, b) ==
    /\ batch.state = "idle"
    /\ batch' = [op |-> "main", mode |-> "update", symbols |-> SymbolOrder,
                 todo |-> SymbolOrder, range |-> <<a, b>>,
                 count |-> 0, called |-> 0, state |-> "running"]
    /\ pc' = "main"
    /\ UNCHANGED <<storeVars, alignVars, mergeVars, fetch, bin_df, dates, webVars, report>>

\* main: if db.update_symbol(symbol, args.start, args.end, api_key): success_count += 1
UpdateNext(fail_at, io) ==
    /\ batch.op = "main" /\ batch.state = "running" /\ batch.todo # <<>>
    /\ UpdateRange(Head(batch.todo), batch.range[1], batch.range[2], fail_at, io)
    /\ batch' = AfterCall(last'.returned)
    /\ UNCHANGED <<bin_df, dates, webVars, report>>

\* main: the "Update Summary" line
FinishUpdates ==
    /\ batch.op = "main" /\ batch.state = "running" /\ batch.todo = <<>>
    /\ batch' = [batch EXCEPT !.state = "summary"]
    /\ pc' = "summary"
    /\ UNCHANGED <<storeVars, alignVars, mergeVars, fetch, bin_df, dates, webVars, report>>

\* the symbols of config/symbols.conf: the file is missing, or names both
ConfLists == {<<>>, SymbolOrder}

\* a synchronizer that goes on with every day of the calendar when it finds
\* no existing data
StartSyncAnyway(symbols) ==
    /\ batch.state = "idle"
    /\ symbols # <<>>
    /\ \E global_range \in {get_global_date_range(symbols)} :
          batch' = [op |-> "sync", mode |-> "sync-only", symbols |-> symbols,
                    todo |-> symbols,
                    range |-> IF global_range = <<>> THEN <<0, MaxDay - 1>>
                              ELSE global_range,
                    count |-> 0, called |-> 0, state |-> "running"]
    /\ pc' = "sync_all_symbols"
    /\ UNCHANGED <<storeVars, alignVars, mergeVars, fetch, bin_df, dates, webVars, report>>

\* sync_all_symbols(symbols, api_key) up to its loop; main calls it with
\* list_all_symbols() after a summary with success_count > 0, by --sync-only
\* with load_symbols_from_conf() or db.list_all_symbols(), and by
\* --symbols-sync with the configured symbols after its own loop
StartSync(symbols) ==
    /\ \/ /\ batch.state = "idle"
          /\ \E conf \in ConfLists :
                symbols = IF conf # <<>> THEN conf ELSE list_all_symbols
       \/ /\ batch.op = "main" /\ batch.state = "summary" /\ batch.count > 0
          /\ symbols = list_all_symbols
       \/ /\ batch.op = "symbols-sync" /\ batch.state = "running" /\ batch.todo = <<>>
          /\ symbols = batch.symbols
    /\ symbols # <<>>
    /\ \E global_range \in {get_global_date_range(symbols)},
          mode \in {IF batch.state = "idle" THEN "sync-only" ELSE batch.mode} :
          batch' = IF global_range = <<>>
                   THEN [op |-> "sync", mode |-> mode, symbols |-> symbols,
                         todo |-> <<>>, range |-> <<>>,
                         count |-> 0, called |-> 0, state |-> "returned None"]
                   ELSE [op |-> "sync", mode |-> mode, symbols |-> symbols,
                         todo |-> symbols, range |-> global_range,
                         count |-> 0, called |-> 0, state |-> "running"]
    /\ pc' = "sync_all_symbols"
    /\ UNCHANGED <<storeVars, alignVars, mergeVars, fetch, bin_df, dates, webVars, report>>

\* a test that looks at the first date only
SameStart(symbol, global_range) ==
    With(get_date_range(read_existing_data(symbol)), LAMBDA existing_range :
        existing_range # <<>> /\ existing_range[1] = global_range[1])

\* existing_df is not None and existing_range equals global_range at both ends
AlreadySynchronized(symbol, global_range) ==
    With(get_date_range(read_existing_data(symbol)), LAMBDA existing_range :
        /\ existing_range # <<>>
        /\ existing_range[1] = global_range[1]
        /\ existing_range[2] = global_range[2])

\* sync_all_symbols: a symbol that already has the global range is passed over
SyncSkip ==
    /\ batch.op = "sync" /\ batch.state = "running" /\ batch.todo # <<>>
    /\ AlreadySynchronized(Head(batch.todo), batch.range)
    /\ batch' = [batch EXCEPT !.todo = Tail(@)]
    /\ pc' = "synchronized"
    /\ UNCHANGED <<storeVars, alignVars, mergeVars, fetch, bin_df, dates, webVars, report>>

\* sync_all_symbols: if self.update_symbol(symbol, start_date, end_date, api_key)
SyncNext(fail_at, io) ==
    /\ batch.op = "sync" /\ batch.state = "running" /\ batch.todo # <<>>
    /\ ~AlreadySynchronized(Head(batch.todo), batch.range)
    /\ UpdateRange(Head(batch.todo), batch.range[1], batch.range[2], fail_at, io)
    /\ batch' = AfterCall(last'.returned)
    /\ UNCHANGED <<bin_df, dates, webVars, report>>

\* sync_all_symbols: the "Sync complete" lines
FinishSync ==
    /\ batch.op = "sync" /\ batch.state = "running" /\ batch.todo = <<>>
    /\ batch' = [batch EXCEPT !.state = "summary"]
    /\ pc' = "summary"
    /\ UNCHANGED <<storeVars, alignVars, mergeVars, fetch, bin_df, dates, webVars, report>>

\* the artifacts a completed save of the aligned response leaves
SavedCsv(raw) == CsvOf(Prepared(filter_and_align(raw)))
SavedBin(raw) == BinOf(Prepared(filter_and_align(raw)))

\* what earlier runs left for a symbol: nothing, day 0, or every day
EarlierFetches == {<<>>, RawFrame(Feed(0, 0), 1), RawFrame(Feed(0, MaxDay - 1), 1)}

InitBatch ==
    /\ \E had \in [Symbols -> EarlierFetches] :
          /\ csv = [s \in Symbols |-> IF had[s] = <<>> THEN NoCsv ELSE SavedCsv(had[s])]
          /\ bin = [s \in Symbols |-> IF had[s] = <<>> THEN NoBin ELSE SavedBin(had[s])]
          /\ accepted = [s \in Symbols |->
                            IF had[s] = <<>> THEN {} ELSE EpochsOf(SavedCsv(had[s]))]
    /\ clean = [s \in Symbols |-> TRUE]
    /\ calls = 0
    /\ last = NoCall
    /\ AlignIdle /\ MergeIdle /\ ToolsIdle /\ WebIdle
    /\ pc = "init"

NextBatch ==
    \/ \E a \in Days, b \in Days : StartUpdates(a, b)
    \/ \E fail_at \in 0 .. MaxDay, io \in IOOutcomes : UpdateNext(fail_at, io)
    \/ FinishUpdates
    \/ \E symbols \in {list_all_symbols} : StartSync(symbols)
    \/ SyncSkip
    \/ \E fail_at \in 0 .. MaxDay, io \in IOOutcomes : SyncNext(fail_at, io)
    \/ FinishSync

SpecBatch == InitBatch /\ [][NextBatch]_vars

\* C14: in the loop of main and in the loop of sync_all_symbols, a call of
\* update_symbol that fails (in its fetch or in its save) is not counted,
\* changes no artifact of another symbol, and the loop goes on to the next
\* symbol of the list.
C14_BatchIsolation ==
    [][(batch.state = "running" /\ batch.todo # <<>> /\ calls' = calls + 1) =>
          /\ batch'.state = "running"
          /\ batch'.todo = Tail(batch.todo)
          /\ batch'.count = batch.count + (IF last'.returned = "True" THEN 1 ELSE 0)
          /\ \A s \in Symbols \ {Head(batch.todo)} :
                 csv'[s] = csv[s] /\ bin'[s] = bin[s]]_vars

\* C15: a call of update_symbol whose fetch fails on some page, or ends with
\* no bars, returns False, leaves both artifacts of every symbol as they were,
\* and merges nothing: the bars of the pages read before the failure are
\* dropped.
C15_FetchFailureFrame ==
    [][(calls' = calls + 1 /\ (fetch'.failed_at # 0 \/ fetch'.bars = 0)) =>
          /\ last'.returned = "False"
          /\ csv' = csv /\ bin' = bin
          /\ new' = <<>> /\ merged' = <<>>]_vars

\* the second page failed after a first page with bars, for a symbol that has
\* both artifacts
C15_Witness ==
    /\ pc = "update_symbol"
    /\ fetch.failed_at = 2 /\ fetch.bars > 0
    /\ last.returned = "False"
    /\ csv[last.symbol].exists /\ bin[last.symbol].exists

-----------------------------------------------------------------------------
(* sanity_check over stores whose files were changed behind the program *)

\* a synthetic tabular artifact: n days with one bar each, at 09:30
SparseCsv(n) ==
    CsvOf(WithTsColumns([d \in 1 .. n |->
        [idx |-> Instant(d - 1, RTH_START), open |-> Bar(1, d).open,
         high |-> Bar(1, d).high, low |-> Bar(1, d).low, close |-> Bar(1, d).close,
         volume |-> Bar(1, d).volume]]))

DropLast(rows) == SubSeq(rows, 1, Len(rows) - 1)

ChangeKinds ==
    {"csv_drop_last", "csv_garbled", "csv_sparse", "bin_truncate", "bin_rewrite", "bin_value"}

\* the sizes of the synthetic file: one day, as many days as are shown, more
SparseSizes == {1, ShownDays, MaxSparse}

\* one artifact of a symbol whose pair is consistent is changed by something
\* other than save_data: the CSV loses its last line, stops parsing, or is
\* replaced by a synthetic file of n days; the binary file loses its last
\* record (with the header as it was or rewritten), or gets another close in
\* its first record
Change(symbol, kind, n) ==
    /\ clean[symbol]
    /\ csv[symbol].exists /\ bin[symbol].exists
    /\ ~csv[symbol].torn
    /\ csv[symbol].rows # <<>>
    /\ bin[symbol].count = Len(bin[symbol].recs)
    /\ csv[symbol].rows = bin[symbol].recs
    /\ kind = "csv_sparse" \/ n = 1
    /\ csv' = CASE kind = "csv_drop_last" -> [csv EXCEPT ![symbol].rows = DropLast(@)]
                 [] kind = "csv_garbled" -> [csv EXCEPT ![symbol].torn = TRUE]
                 [] kind = "csv_sparse" -> [csv EXCEPT ![symbol] = SparseCsv(n)]
                 [] OTHER -> csv
    /\ bin' = CASE kind = "bin_truncate" -> [bin EXCEPT ![symbol].recs = DropLast(@)]
                 [] kind = "bin_rewrite" ->
                        [bin EXCEPT ![symbol].recs = DropLast(@), ![symbol].count = @ - 1]
                 [] kind = "bin_value" -> [bin EXCEPT ![symbol].recs[1].close = @ + 1]
                 [] OTHER -> bin
    /\ clean' = [clean EXCEPT ![symbol] = FALSE]
    /\ last' = [op |-> kind, symbol |-> symbol, returned |-> "none"]
    /\ pc' = "changed"
    /\ UNCHANGED <<accepted, calls, alignVars, mergeVars, toolVars, webVars>>

\* what earlier runs left for a symbol: as for the loops, or day 0 saved from
\* bars with fractional volumes
VerifiedFetches == EarlierFetches \cup {Fractional(RawFrame(Feed(0, 0), 1))}

InitVerify ==
    /\ \E had \in [Symbols -> VerifiedFetches] :
          /\ csv = [s \in Symbols |-> IF had[s] = <<>> THEN NoCsv ELSE SavedCsv(had[s])]
          /\ bin = [s \in Symbols |-> IF had[s] = <<>> THEN NoBin ELSE SavedBin(had[s])]
          /\ accepted = [s \in Symbols |->
                            IF had[s] = <<>> THEN {} ELSE EpochsOf(SavedCsv(had[s]))]
    /\ clean = [s \in Symbols |-> TRUE]
    /\ calls = 0
    /\ last = NoCall
    /\ AlignIdle /\ MergeIdle /\ ToolsIdle /\ WebIdle
    /\ pc = "init"

NextVerify ==
    \/ \E symbol \in Symbols, kind \in ChangeKinds, n \in SparseSizes :
           Change(symbol, kind, n)
    \/ RunSanityCheck

SpecVerify == InitVerify /\ [][NextVerify]_vars

-----------------------------------------------------------------------------
(* Properties of sanity_check *)

Readable(f) == f.exists /\ ~f.torn /\ f.rows # <<>>

\* the days of a tabular artifact whose number of rows is not BARS_PER_DAY
BadCsvDays(f) == {d \in CsvDays(f) : Len(CsvDayRows(f, d)) # BARS_PER_DAY}

Shows(e, d, c) == \E k \in DOMAIN e.days : e.days[k] = [date |-> d, count |-> c]

\* the statement of C16 as it is written: every day whose count is not 391 is
\* named, with its count, in an issue of its symbol
C16_EveryBadDayNamed ==
    pc = "sanity_check" =>
        \A s \in Symbols :
            Readable(csv[s]) =>
                \A d \in BadCsvDays(csv[s]) :
                    /\ report.returned = "False"
                    /\ \E k \in DOMAIN report.all_errors :
                          /\ report.all_errors[k].symbol = s
                          /\ Shows(report.all_errors[k], d, Len(CsvDayRows(csv[s], d)))

\* C16: when a readable tabular artifact has days whose count is not 391,
\* sanity_check returns False and lists the symbol under the CSV issues with
\* one issue for its days; that issue names, with their counts, the first
\* ShownDays offending days in date order, and only counts the days after
\* those.
C16_BadDaysReported ==
    pc = "sanity_check" =>
        \A s \in Symbols :
            (Readable(csv[s]) /\ BadCsvDays(csv[s]) # {}) =>
                /\ report.returned = "False"
                /\ \E k \in DOMAIN report.csv_issues : report.csv_issues[k] = s
                /\ \E k \in DOMAIN report.all_errors :
                      LET e == report.all_errors[k]
                          bad == BadCsvDays(csv[s])
                      IN /\ e.symbol = s /\ e.kind = "csv_bad_days"
                         /\ e.more = IF Cardinality(bad) > ShownDays
                                     THEN Cardinality(bad) - ShownDays ELSE 0
                         /\ \A d \in bad :
                               Shows(e, d, Len(CsvDayRows(csv[s], d)))
                                   <=> Cardinality({x \in bad : x < d}) < ShownDays

\* the CSV lost its last line: its last day has 390 bars and is named
C16_Witness ==
    /\ pc = "sanity_check"
    /\ last.op = "csv_drop_last"
    /\ report.returned = "False"
    /\ \E k \in DOMAIN report.all_errors :
          /\ report.all_errors[k].symbol = last.symbol
          /\ report.all_errors[k].kind = "csv_bad_days"
          /\ \E j \in DOMAIN report.all_errors[k].days :
                report.all_errors[k].days[j].count = BARS_PER_DAY - 1

\* C17: after one artifact of a consistent pair was changed on its own,
\* sanity_check returns False and lists the symbol under the CSV/BIN
\* mismatches.
C17_MismatchReported ==
    (pc = "sanity_check" /\ last.op \in ChangeKinds) =>
        /\ report.returned = "False"
        /\ \E k \in DOMAIN report.mismatch_issues : report.mismatch_issues[k] = last.symbol

\* C18: when sanity_check returns True, the two artifacts of every symbol it
\* examined hold the same bars.
C18_TrueMeansSameBars ==
    (pc = "sanity_check" /\ report.returned = "True") =>
        \A k \in DOMAIN report.symbols :
            SameBars(csv[report.symbols[k]], bin[report.symbols[k]])

\* first and last date of a tabular artifact, from its ts_utc strings
CsvRange(f) == <<MinOf(CsvDays(f)), MaxOf(CsvDays(f))>>

\* the listed symbols whose CSV parses, in sorted order
Validated == SelectSeq(SymbolOrder, LAMBDA s : Readable(csv[s]))

HasIssue(s, kind) ==
    \E k \in DOMAIN report.all_errors :
        report.all_errors[k].symbol = s /\ report.all_errors[k].kind = kind

\* C19: the first symbol in sorted order whose CSV parses gives the
\* reference; for every later one whose first or last date differs from the
\* reference's sanity_check returns False with an issue saying so; when it
\* returns True every symbol that has a CSV parses and all have the same first
\* and last date; and sanity_check changes no artifact.
C19_CrossSymbolRange ==
    /\ [](pc = "sanity_check" =>
            /\ \A k \in 2 .. Len(Validated) :
                   CsvRange(csv[Validated[k]]) # CsvRange(csv[Validated[1]]) =>
                       /\ report.returned = "False"
                       /\ HasIssue(Validated[k], "reference_differs")
            /\ report.returned = "True" =>
                   \A s \in Symbols, t \in Symbols :
                       (csv[s].exists /\ csv[t].exists) =>
                           /\ Readable(csv[s])
                           /\ CsvRange(csv[s]) = CsvRange(csv[t]))
    /\ [][pc' = "sanity_check" => (csv' = csv /\ bin' = bin)]_vars

\* two symbols that pass every other check, with different last dates
C19_Witness ==
    /\ pc = "sanity_check"
    /\ Len(Validated) = 2
    /\ CsvRange(csv["SQQQ"])[1] = CsvRange(csv["TQQQ"])[1]
    /\ CsvRange(csv["SQQQ"])[2] # CsvRange(csv["TQQQ"])[2]
    /\ report.returned = "False"
    /\ Len(report.all_errors) = 1
    /\ HasIssue("TQQQ", "reference_differs")

\* two symbols with the same range, and True
C19_WitnessTrue ==
    /\ pc = "sanity_check"
    /\ Len(Validated) = 2
    /\ Len(csv["SQQQ"].rows) > BARS_PER_DAY
    /\ report.returned = "True"

\* a symbol's artifacts have a defect that can be told from the files alone
Failing(s) ==
    \/ ~Readable(csv[s])
    \/ Len(csv[s].rows) % BARS_PER_DAY # 0
    \/ BadCsvDays(csv[s]) # {}
    \/ ~bin[s].exists
    \/ bin[s].count > Len(bin[s].recs)
    \/ bin[s].count # Len(csv[s].rows)

\* C20: sanity_check goes through every symbol that list_all_symbols
\* returns, and the report has an issue for every one of them whose
\* artifacts have a defect, whatever was found for the symbols before it.
C20_AllIssuesCollected ==
    pc = "sanity_check" =>
        /\ report.symbols = SelectSeq(SymbolOrder, LAMBDA s : csv[s].exists)
        /\ \A k \in DOMAIN report.symbols :
               Failing(report.symbols[k]) => Names(report.all_errors, report.symbols[k])

\* both symbols have a defect, the first an unparsable CSV, and both are named
C20_Witness ==
    /\ pc = "sanity_check"
    /\ Len(report.symbols) = 2
    /\ ~Readable(csv[report.symbols[1]])
    /\ Failing(report.symbols[2])
    /\ Names(report.all_errors, report.symbols[1])
    /\ Names(report.all_errors, report.symbols[2])

\* the binary artifact is there and every record its header counts can be read
BinReadable(b) == b.exists /\ b.count > 0 /\ b.count <= Len(b.recs)

\* the kinds of issue that say an artifact is missing or does not parse
FatalKinds == {"csv_missing", "csv_unreadable", "bin_missing", "bin_unreadable"}

\* the listed symbols both of whose artifacts parse, in sorted order
Parsed == SelectSeq(SymbolOrder, LAMBDA s : Readable(csv[s]) /\ BinReadable(bin[s]))

\* C21: for a listed symbol one of whose artifacts is missing or does not
\* parse, sanity_check records an issue saying so and no issue of any check
\* that comes after it (binary counts, CSV against binary, range against
\* the reference), and the reference range is not taken from that symbol: it
\* is the range of the first symbol both of whose artifacts parse.
C21_UnparseableIsFatal ==
    pc = "sanity_check" =>
        /\ \A k \in DOMAIN report.symbols :
               LET s == report.symbols[k]
               IN (~Readable(csv[s]) \/ ~BinReadable(bin[s])) =>
                      /\ \E kind \in FatalKinds : HasIssue(s, kind)
                      /\ \A kind \in {"bin_total", "bin_bad_days"} \cup MismatchKinds
                                        \cup {"reference_differs"} : ~HasIssue(s, kind)
                      /\ ~Readable(csv[s]) =>
                             \A kind \in {"csv_total", "csv_bad_days"} \cup BinKinds :
                                 ~HasIssue(s, kind)
        /\ report.symbols # <<>> =>
               report.reference_date_range =
                   IF Parsed = <<>> THEN <<>> ELSE CsvRange(csv[Parsed[1]])

\* C22: a call of sanity_check and a call of verify_integrity leave the
\* tabular and the binary artifact of every symbol as they were, whether the
\* call returns True or False.
C22_VerifierReadOnly ==
    [][pc' \in {"sanity_check", "verify_integrity"} =>
          \A s \in Symbols : csv'[s] = csv[s] /\ bin'[s] = bin[s]]_vars

\* sanity_check has found a tabular artifact that does not parse, next to a
\* symbol without issues, and the file is still there
C22_Witness ==
    /\ pc = "sanity_check"
    /\ report.returned = "False"
    /\ \E s \in Symbols :
          /\ csv[s].exists /\ csv[s].torn
          /\ HasIssue(s, "csv_unreadable")
    /\ \E s \in Symbols : Readable(csv[s]) /\ ~Names(report.all_errors, s)

\* verify_integrity has found a tabular artifact that stops inside a day
C22_WitnessIntegrity ==
    /\ pc = "verify_integrity"
    /\ report.returned = "False"
    /\ \E s \in Symbols :
          /\ Len(csv[s].rows) % BARS_PER_DAY # 0
          /\ HasIssue(s, "bars_not_whole_days")

-----------------------------------------------------------------------------
(* get_global_date_range over every bounded store *)

\* the responses earlier runs saved: the feed from one trading day to another
RangeFetches ==
    {RawFrame(Feed(a, b), 1) : a \in Days \ Holidays, b \in Days \ Holidays} \ {<<>>}

\* the lists of symbols the function is called with
SymbolLists == {<<s>> : s \in Symbols} \cup {<<s, t>> : s \in Symbols, t \in Symbols}

\* every symbol has no artifacts, or those of a saved range; the tabular
\* artifact of some no longer parses
InitRange ==
    /\ \E had \in [Symbols -> RangeFetches \cup {<<>>}], garbled \in SUBSET Symbols :
          /\ csv = [s \in Symbols |->
                       IF had[s] = <<>> THEN NoCsv
                       ELSE [SavedCsv(had[s]) EXCEPT !.torn = (s \in garbled)]]
          /\ bin = [s \in Symbols |-> IF had[s] = <<>> THEN NoBin ELSE SavedBin(had[s])]
          /\ accepted = [s \in Symbols |->
                            IF had[s] = <<>> THEN {} ELSE EpochsOf(SavedCsv(had[s]))]
          /\ clean = [s \in Symbols |-> s \notin garbled]
          /\ \A s \in garbled : had[s] # <<>>
    /\ calls = 0
    /\ last = NoCall
    /\ AlignIdle /\ MergeIdle /\ ToolsIdle /\ WebIdle
    /\ pc = "init"

\* global_range = self.get_global_date_range(symbols)
GlobalRange(symbols) ==
    /\ pc = "init"
    /\ batch' = [NoBatch EXCEPT !.op = "get_global_date_range", !.symbols = symbols,
                                !.range = get_global_date_range(symbols)]
    /\ pc' = "get_global_date_range"
    /\ UNCHANGED <<storeVars, alignVars, mergeVars, fetch, bin_df, dates, webVars, report>>

NextRange == \E symbols \in SymbolLists : GlobalRange(symbols)

SpecRange == InitRange /\ [][NextRange]_vars

\* the symbols of the list whose tabular artifact gives data
WithData(symbols) == {s \in Range(symbols) : Readable(csv[s])}

\* C23: when some symbol of the list has existing data,
\* get_global_date_range returns the earliest first date and the latest last
\* date among the symbols of the list that have data; a symbol without a
\* tabular artifact, or with one that does not parse, changes nothing.
C23_GlobalRange ==
    (pc = "get_global_date_range" /\ WithData(batch.symbols) # {}) =>
        /\ batch.range[1] = MinOf({CsvRange(csv[s])[1] : s \in WithData(batch.symbols)})
        /\ batch.range[2] = MaxOf({CsvRange(csv[s])[2] : s \in WithData(batch.symbols)})

\* the first date comes from the second symbol of the list, the last date
\* from the first
C23_Witness ==
    /\ pc = "get_global_date_range"
    /\ Len(batch.symbols) = 2
    /\ WithData(batch.symbols) = Symbols
    /\ CsvRange(csv[batch.symbols[2]])[1] < CsvRange(csv[batch.symbols[1]])[1]
    /\ CsvRange(csv[batch.symbols[2]])[2] < CsvRange(csv[batch.symbols[1]])[2]
    /\ batch.range = <<CsvRange(csv[batch.symbols[2]])[1], CsvRange(csv[batch.symbols[1]])[2]>>

\* a symbol whose tabular artifact does not parse next to one with data
C23_WitnessUnreadable ==
    /\ pc = "get_global_date_range"
    /\ Len(batch.symbols) = 2
    /\ csv[batch.symbols[1]].torn
    /\ Readable(csv[batch.symbols[2]])
    /\ batch.range = CsvRange(csv[batch.symbols[2]])

-----------------------------------------------------------------------------
(* sync_all_symbols over every bounded store, and the verifier after it *)

\* the lists sync_all_symbols is called with
SyncLists == {list_all_symbols, SymbolOrder}

\* db.sanity_check() after sync_all_symbols has returned
CheckAfterSync ==
    /\ batch.op = "sync" /\ batch.state \in {"summary", "returned None"}
    /\ RunSanityCheck

\* db.verify_integrity(all_symbols) after sync_all_symbols has returned
IntegrityAfterSync ==
    /\ batch.op = "sync" /\ batch.state \in {"summary", "returned None"}
    /\ RunVerifyIntegrity(batch.symbols)

NextSync ==
    \/ \E symbols \in SyncLists : StartSync(symbols)
    \/ SyncSkip
    \/ \E fail_at \in 0 .. MaxDay, io \in IOOutcomes : SyncNext(fail_at, io)
    \/ FinishSync
    \/ CheckAfterSync
    \/ IntegrityAfterSync

\* the dataset a sequence of successful updates leaves, one fetch each
RECURSIVE Accumulated(_)
Accumulated(raws) ==
    IF raws = <<>> THEN <<>>
    ELSE With(Accumulated(SubSeq(raws, 1, Len(raws) - 1)), LAMBDA before :
             Prepared(merge_data(ReadCsv(CsvOf(before)),
                                 filter_and_align(raws[Len(raws)]))[1]))

\* what earlier runs fetched for a symbol: nothing; one range between trading
\* days; or the first and the last day of the calendar, one run each
SyncHistories ==
    {<<>>} \cup {<<raw>> : raw \in RangeFetches}
           \cup {<<RawFrame(Feed(0, 0), 1), RawFrame(Feed(MaxDay, MaxDay), 1)>>}

\* what a symbol's earlier runs were: updates that succeeded, or a first
\* update whose save failed inside the CSV
SyncPasts ==
    {[raws |-> h, torn |-> FALSE] : h \in SyncHistories}
        \cup {[raws |-> <<RawFrame(Feed(0, 0), 1)>>, torn |-> TRUE]}

\* every symbol has no artifacts, those its earlier updates left, or the
\* torn CSV that a first save which failed part-way left
InitSync ==
    /\ \E had \in [Symbols -> SyncPasts] :
          \E df \in {[s \in Symbols |-> Accumulated(had[s].raws)]} :
             /\ csv = [s \in Symbols |->
                          IF had[s].torn THEN CsvCut(df[s], TRUE)
                          ELSE IF df[s] = <<>> THEN NoCsv ELSE CsvOf(df[s])]
             /\ bin = [s \in Symbols |->
                          IF had[s].torn \/ df[s] = <<>> THEN NoBin ELSE BinOf(df[s])]
             /\ accepted = [s \in Symbols |->
                               IF had[s].torn \/ df[s] = <<>> THEN {}
                               ELSE EpochsOf(CsvOf(df[s]))]
             /\ clean = [s \in Symbols |-> ~had[s].torn]
    /\ calls = 0
    /\ last = NoCall
    /\ AlignIdle /\ MergeIdle /\ ToolsIdle /\ WebIdle
    /\ pc = "init"

SpecSync == InitSync /\ [][NextSync]_vars

\* C24: when no symbol of the list has existing data, sync_all_symbols
\* returns None: its loop is never entered, and no call of update_symbol, no
\* fetch and no write to any artifact follows.
C24_SyncWithoutData ==
    /\ [][(pc' = "sync_all_symbols" /\ WithData(batch'.symbols) = {}) =>
             /\ batch'.state = "returned None"
             /\ batch'.todo = <<>>
             /\ calls' = calls /\ fetch' = fetch /\ csv' = csv /\ bin' = bin]_vars
    /\ [][batch.state = "returned None" =>
             /\ batch' = batch
             /\ calls' = calls /\ fetch' = fetch /\ csv' = csv /\ bin' = bin]_vars

\* sync_all_symbols has returned None for two symbols, one without artifacts
\* and one whose tabular artifact does not parse
C24_Witness ==
    /\ batch.op = "sync" /\ batch.state = "returned None"
    /\ Len(batch.symbols) = 2
    /\ \E s \in Symbols : ~csv[s].exists
    /\ \E s \in Symbols : csv[s].exists /\ csv[s].torn
    /\ calls = 0 /\ fetch = NoFetch

\* C25: in the loop of sync_all_symbols a symbol whose existing data has the
\* first and the last date of the global range is passed over, with no call
\* of update_symbol and its artifacts untouched; for any other symbol, with
\* another range or without data, update_symbol is called once, for that
\* symbol, with a fetch over the global range.  update_symbol is called at
\* no other point of the synchronizer.
C25_SyncSelection ==
    /\ [][(batch.op = "sync" /\ batch.state = "running" /\ batch.todo # <<>>
             /\ batch' # batch) =>
             LET s == Head(batch.todo)
             IN IF Readable(csv[s]) /\ CsvRange(csv[s]) = batch.range
                THEN /\ calls' = calls /\ fetch' = fetch
                     /\ csv' = csv /\ bin' = bin
                     /\ batch'.todo = Tail(batch.todo)
                ELSE /\ calls' = calls + 1
                     /\ last'.op = "update_symbol" /\ last'.symbol = s
                     /\ fetch'.pages = Len(ProviderPages(batch.range[1], batch.range[2],
                                                          calls'))
                     /\ \A t \in Symbols \ {s} : csv'[t] = csv[t] /\ bin'[t] = bin[t]]_vars
    /\ [][calls' # calls =>
             batch.op = "sync" /\ batch.state = "running" /\ batch.todo # <<>>]_vars

\* one symbol was passed over and the other, with a shorter range, updated
C25_Witness ==
    /\ batch.op = "sync" /\ batch.state = "summary"
    /\ Len(batch.symbols) = 2
    /\ batch.called = 1 /\ batch.count = 1
    /\ existing # <<>>
    /\ last.returned = "True"
    /\ \A s \in Symbols : CsvRange(csv[s]) = batch.range

\* a symbol without artifacts was updated
C25_WitnessNoData ==
    /\ batch.op = "sync" /\ batch.state = "summary"
    /\ batch.called = 1 /\ batch.count = 1
    /\ existing = <<>>
    /\ last.returned = "True"
    /\ \A s \in Symbols : Readable(csv[s]) /\ CsvRange(csv[s]) = batch.range

\* sync_all_symbols has returned and every call of update_symbol it made
\* returned True
SyncSucceeded ==
    batch.op = "sync" /\ batch.state = "summary" /\ batch.count = batch.called

\* C26: when sync_all_symbols has returned and every update it made
\* succeeded, the tabular artifact of every symbol of the list begins on the
\* first and ends on the last date of the global range, and a verifier run
\* next (sanity_check, verify_integrity over the list) returns True.
C26_SyncConvergence ==
    /\ [](SyncSucceeded =>
             \A k \in DOMAIN batch.symbols :
                 /\ Readable(csv[batch.symbols[k]])
                 /\ CsvRange(csv[batch.symbols[k]]) = batch.range)
    /\ [][(SyncSucceeded /\ pc' \in {"sanity_check", "verify_integrity"}) =>
             report'.returned = "True"]_vars

-----------------------------------------------------------------------------
(* main from its start to its return: --sync-only, an update with the *)
(* automatic sync, --symbols-sync *)

\* --symbols-sync up to its loop, with both symbols configured (nothing to
\* remove): the range is the global range of the symbols that have a CSV
\* file, or days a .. b for the default range of the last 45 days
StartSymbolsSync(a, b) ==
    /\ batch.state = "idle"
    /\ \E global_range \in {get_global_date_range(list_all_symbols)} :
          /\ global_range # <<>> => (a = global_range[1] /\ b = global_range[2])
          /\ batch' = [op |-> "symbols-sync", mode |-> "symbols-sync",
                       symbols |-> SymbolOrder, todo |-> SymbolOrder,
                       range |-> <<a, b>>, count |-> 0, called |-> 0,
                       state |-> "running"]
    /\ pc' = "symbols-sync"
    /\ UNCHANGED <<storeVars, alignVars, mergeVars, fetch, bin_df, dates, webVars, report>>

\* --symbols-sync: the symbol has a CSV with data over exactly that range
SymbolsSyncSkip ==
    /\ batch.op = "symbols-sync" /\ batch.state = "running" /\ batch.todo # <<>>
    /\ AlreadySynchronized(Head(batch.todo), batch.range)
    /\ batch' = [batch EXCEPT !.todo = Tail(@)]
    /\ pc' = "aligned already"
    /\ UNCHANGED <<storeVars, alignVars, mergeVars, fetch, bin_df, dates, webVars, report>>

\* --symbols-sync: db.update_symbol(sym, start_date, end_date, api_key) for a
\* symbol that is missing, has no data or has another range; what the call
\* returns is dropped
SymbolsSyncNext(fail_at, io) ==
    /\ batch.op = "symbols-sync" /\ batch.state = "running" /\ batch.todo # <<>>
    /\ ~AlreadySynchronized(Head(batch.todo), batch.range)
    /\ UpdateRange(Head(batch.todo), batch.range[1], batch.range[2], fail_at, io)
    /\ batch' = [AfterCall(last'.returned) EXCEPT !.count = 0]
    /\ UNCHANGED <<bin_df, dates, webVars, report>>

\* db.verify_integrity(all_symbols) after the automatic sync, and
\* db.verify_integrity(desired) after the sync of --symbols-sync
VerifyAfterSync ==
    /\ batch.op = "sync" /\ batch.state \in {"summary", "returned None"}
    /\ batch.mode \in {"update", "symbols-sync"}
    /\ RunVerifyIntegrity(batch.symbols)

\* main returns: after the sync of --sync-only; after the summary of an
\* update that is not followed by a sync (--no-sync, or no symbol updated);
\* after verify_integrity in the other two cases
Return ==
    /\ batch.state \in {"summary", "returned None"}
    /\ \/ batch.mode = "sync-only"
       \/ batch.mode = "update" /\ batch.op = "main"
       \/ batch.op = "sync" /\ pc = "verify_integrity"
    /\ batch' = [batch EXCEPT !.state = "ended"]
    /\ pc' = "return"
    /\ UNCHANGED <<storeVars, alignVars, mergeVars, fetch, bin_df, dates, webVars, report>>

NextRuns ==
    \/ \E a \in Days, b \in Days : StartUpdates(a, b)
    \/ \E fail_at \in 0 .. MaxDay, io \in IOOutcomes : UpdateNext(fail_at, io)
    \/ FinishUpdates
    \/ \E a \in Days, b \in Days : StartSymbolsSync(a, b)
    \/ SymbolsSyncSkip
    \/ \E fail_at \in 0 .. MaxDay, io \in IOOutcomes : SymbolsSyncNext(fail_at, io)
    \/ \E symbols \in SyncLists : StartSync(symbols)
    \/ SyncSkip
    \/ \E fail_at \in 0 .. MaxDay, io \in IOOutcomes : SyncNext(fail_at, io)
    \/ FinishSync
    \/ VerifyAfterSync
    \/ Return

SpecRuns == InitBatch /\ [][NextRuns]_vars

\* C27: a run of main that called sync_all_symbols returns only after a
\* verifier has gone through the symbols of that sync, after the last of
\* them was processed, and has given its verdict.
C27_VerifiedAfterSync ==
    [][(batch.op = "sync" /\ batch'.state = "ended") =>
          /\ pc = "verify_integrity"
          /\ report.symbols = batch.symbols
          /\ report.returned \in {"True", "False"}]_vars

-----------------------------------------------------------------------------
(* list_trading_days over every bounded store *)

\* db.list_trading_days() as main --list-dates calls it, and with a symbol
ListTradingDays(symbol) ==
    /\ pc = "init"
    /\ dates' = list_trading_days(symbol)
    /\ last' = [op |-> "list_trading_days", symbol |-> symbol, returned |-> "none"]
    /\ pc' = "list_trading_days"
    /\ UNCHANGED <<csv, bin, accepted, clean, calls, alignVars, mergeVars,
                   fetch, bin_df, report, batch, webVars>>

NextDays == \E symbol \in Symbols \cup {""} : ListTradingDays(symbol)

SpecDays == InitRange /\ [][NextDays]_vars

\* the days that occur in the tabular artifact of some symbol
StoredDays == UNION {IF Readable(csv[s]) THEN CsvDays(csv[s]) ELSE {} : s \in Symbols}

\* C28: list_trading_days() without a symbol returns the days that occur in
\* the dataset of any symbol of the store, each once, as dates in ascending
\* order; the empty list for a store without data; and it changes no
\* artifact.
C28_TradingDayListing ==
    /\ []((pc = "list_trading_days" /\ last.symbol = "") =>
             /\ {dates[k].date : k \in DOMAIN dates} = StoredDays
             /\ \A k \in 1 .. (Len(dates) - 1) : dates[k].date < dates[k + 1].date)
    /\ [][pc' = "list_trading_days" => (csv' = csv /\ bin' = bin)]_vars

-----------------------------------------------------------------------------
(* Creation of a symbol's artifacts *)

HasArtifacts(s) == csv[s].exists \/ bin[s].exists

\* C29: a symbol has an artifact only if some call of update_symbol for it
\* returned True, and a call that does not return True for a symbol without
\* artifacts (no data fetched, nothing left after alignment, or save_data
\* raising) leaves it without artifacts.
C29_LazyCreation ==
    /\ [](\A s \in Symbols : HasArtifacts(s) => accepted[s] # {})
    /\ [][(calls' = calls + 1 /\ last'.returned # "True"
             /\ ~HasArtifacts(last'.symbol)) =>
             /\ ~csv'[last'.symbol].exists
             /\ ~bin'[last'.symbol].exists]_vars

-----------------------------------------------------------------------------
(* update_symbol on responses that leave nothing after filtering *)

\* the responses none of whose bars lies inside 09:30-16:00 on a day that is
\* no holiday, the empty response among them
\* responses of two bars are taken with a bar at the open of a holiday first
FilteredOut ==
    {raw \in RawInputs :
        /\ ObservedDays(raw) = {}
        /\ Len(raw) = 2 =>
              /\ DateOf(raw[1].timestamp_utc_ms) \in Holidays
              /\ TimeOfDay(raw[1].timestamp_utc_ms) = RTH_START
              /\ DateOf(raw[2].timestamp_utc_ms) \notin Holidays}

NextFiltered ==
    \E symbol \in Symbols, raw \in FilteredOut :
        update_symbol(symbol, raw, "ok") /\ UNCHANGED <<toolVars, webVars>>

SpecFiltered == InitBatch /\ [][NextFiltered]_vars

-----------------------------------------------------------------------------
(* verify_integrity over stores whose files were changed behind the program *)

\* the 16:00 line of the first day of a symbol's CSV is gone and the last day
\* has a line at 16:01 instead: as many lines as before, in a file of two
\* days or more
MoveBar(symbol) ==
    /\ clean[symbol]
    /\ csv[symbol].exists /\ ~csv[symbol].torn
    /\ Len(csv[symbol].rows) >= 2 * BARS_PER_DAY
    /\ csv[symbol].rows = bin[symbol].recs
    /\ LET rows == csv[symbol].rows
           u == Instant(rows[Len(rows)].ts_utc.date, RTH_END + Minute)
           late == [rows[BARS_PER_DAY] EXCEPT !.ts_utc = FormatTs(u),
                                              !.ts_epoch_utc = EpochOf(u)]
       IN csv' = [csv EXCEPT ![symbol].rows =
                     SubSeq(rows, 1, BARS_PER_DAY - 1)
                       \o SubSeq(rows, BARS_PER_DAY + 1, Len(rows)) \o <<late>>]
    /\ clean' = [clean EXCEPT ![symbol] = FALSE]
    /\ last' = [op |-> "csv_move_bar", symbol |-> symbol, returned |-> "none"]
    /\ pc' = "changed"
    /\ UNCHANGED <<bin, accepted, calls, alignVars, mergeVars, toolVars, webVars>>

IntegrityChanges == {"csv_drop_last", "csv_garbled"}

NextIntegrity ==
    \/ \E symbol \in Symbols : MoveBar(symbol)
    \/ \E symbol \in Symbols, kind \in IntegrityChanges : Change(symbol, kind, 1)
    \/ \E symbols \in IntegrityLists : RunVerifyIntegrity(symbols)

SpecIntegrity == InitVerify /\ [][NextIntegrity]_vars

\* the symbols of the list have data, the same number of days and of bars
SameCounts(symbols) ==
    \A i, j \in DOMAIN symbols :
        /\ Readable(csv[symbols[i]])
        /\ Len(csv[symbols[i]].rows) = Len(csv[symbols[j]].rows)
        /\ Cardinality(CsvDays(csv[symbols[i]])) = Cardinality(CsvDays(csv[symbols[j]]))

\* C31: verify_integrity returns True only if every listed symbol has data,
\* every day of every symbol has exactly 391 bars and all symbols have the
\* same numbers of days and bars; so it returns False when a symbol has a day
\* with another count, also when the symbol's total is a multiple of 391.
C31_IntegrityPerDay ==
    (pc = "verify_integrity" /\ report.returned = "True") =>
        /\ SameCounts(report.symbols)
        /\ \A i \in DOMAIN report.symbols : BadCsvDays(csv[report.symbols[i]]) = {}

-----------------------------------------------------------------------------
(* _read_binary_file on a binary artifact cut at a byte offset *)

\* the sizes of what _save_binary writes: struct.pack('<Q', num_bars),
\* struct.pack('<I', len(ts_bytes)), the timestamp text
\* 'YYYY-MM-DDTHH:MM:SS-05:00' and struct.Struct('<qddddQ')
HeaderBytes == 8
LenBytes == 4
TsBytes(r) == 25
BarBytes == 48

RecordBytes(r) == LenBytes + TsBytes(r) + BarBytes

RECURSIVE BytesOf(_)
BytesOf(recs) == IF recs = <<>> THEN 0 ELSE RecordBytes(Head(recs)) + BytesOf(Tail(recs))

\* the length of the file _save_binary left
FileSize(b) == HeaderBytes + BytesOf(b.recs)

\* mutant: a read that never comes back short
FReadAll(pos, n, size) == n

\* len(f.read(n)) at position pos of a file of size bytes
FRead(pos, n, size) ==
    IF size - pos >= n THEN n ELSE IF size > pos THEN size - pos ELSE 0

\* the loop of _read_binary_file from record i on, at position pos: FALSE
\* when a read comes back short (return None)
RECURSIVE ReadRecords(_, _, _, _)
ReadRecords(b, i, pos, size) ==
    IF i > b.count THEN TRUE
    ELSE IF FRead(pos, LenBytes, size) # LenBytes THEN FALSE
    ELSE IF FRead(pos + LenBytes, TsBytes(b.recs[i]), size) # TsBytes(b.recs[i]) THEN FALSE
    ELSE IF FRead(pos + LenBytes + TsBytes(b.recs[i]), BarBytes, size) # BarBytes THEN FALSE
    ELSE ReadRecords(b, i + 1, pos + RecordBytes(b.recs[i]), size)

\* _read_binary_file on a file that holds the first size bytes of b
read_binary_bytes(b, size) ==
    IF ~b.exists THEN <<>>
    ELSE IF FRead(0, HeaderBytes, size) # HeaderBytes THEN <<>>
    ELSE IF ~ReadRecords(b, 1, HeaderBytes, size) THEN <<>>
    ELSE IF b.count = 0 THEN <<>>
    ELSE [i \in 1 .. b.count |->
             [idx |-> ParseTs(b.recs[i].ts_utc),
              ts_epoch_utc |-> b.recs[i].ts_epoch_utc,
              open |-> b.recs[i].open, high |-> b.recs[i].high, low |-> b.recs[i].low,
              close |-> b.recs[i].close, volume |-> b.recs[i].volume]]

\* the datasets that are written: some of the labels, at the first price level
TruncatedInputs == {Dataset(f) : f \in UNION {[K -> {1}] : K \in SUBSET (1 .. MaxKeys)}}

InitTruncate ==
    /\ StoreIdle /\ AlignIdle /\ ToolsIdle /\ WebIdle
    /\ existing = <<>> /\ new = <<>> /\ stats = NoStats
    /\ merged \in TruncatedInputs
    /\ pc = "start"

\* the bytes of the file that are there
SizeOf(b) == IF "size" \in DOMAIN b THEN b.size ELSE FileSize(b)

\* the file is cut at byte offset k, before its end
Truncate(symbol, k) ==
    /\ pc = "_save_binary"
    /\ bin[symbol].exists
    /\ k < FileSize(bin[symbol])
    /\ bin' = [bin EXCEPT ![symbol] =
                  [exists |-> TRUE, count |-> @.count, recs |-> @.recs, size |-> k]]
    /\ pc' = "truncated"
    /\ UNCHANGED <<csv, accepted, clean, calls, last, alignVars, mergeVars, toolVars, webVars>>

\* self._read_binary_file(bin_path)
ReadBytes(symbol) ==
    /\ pc \in {"_save_binary", "truncated"}
    /\ bin[symbol].exists
    /\ bin_df' = read_binary_bytes(bin[symbol], SizeOf(bin[symbol]))
    /\ pc' = IF pc = "truncated" THEN "read truncated" ELSE "_read_binary_file"
    /\ UNCHANGED <<storeVars, alignVars, mergeVars, fetch, dates, webVars, report, batch>>

MaxFileSize == HeaderBytes + MaxKeys * (LenBytes + 25 + BarBytes)

NextTruncate ==
    \E symbol \in Symbols :
        \/ SaveBinary(symbol)
        \/ \E k \in 0 .. (MaxFileSize - 1) : Truncate(symbol, k)
        \/ ReadBytes(symbol)

SpecTruncate == InitTruncate /\ [][NextTruncate]_vars

\* C32: a binary artifact that _save_binary wrote with one bar or more and
\* that was then cut at a byte offset before its end is read as unreadable
\* (None), never as a dataset of fewer bars.
C32_TruncatedIsUnreadable ==
    pc = "read truncated" => bin_df = <<>>

\* the file of MaxKeys bars cut at the end of its second record has been read
C32_Witness ==
    /\ pc = "read truncated"
    /\ Len(merged) = MaxKeys
    /\ \E s \in Symbols :
          /\ bin[s].exists /\ bin[s].count = MaxKeys
          /\ SizeOf(bin[s]) = HeaderBytes + 2 * (LenBytes + 25 + BarBytes)
    /\ bin_df = <<>>

\* the file that was not cut is read as it was written
C32_WitnessWhole ==
    /\ pc = "_read_binary_file"
    /\ Len(merged) = MaxKeys
    /\ Len(bin_df) = MaxKeys

-----------------------------------------------------------------------------
(* filter_and_align: the fill where one day ends and the next begins *)

\* the slots of day d that have a raw bar at exactly their minute
DayMatched(d) == {m \in Matched : DateOf(m) = d}

\* the slots of day d before the first of them (all of the day if none)
LeadingGap(d) ==
    {u \in IndexSet(aligned_df) : DateOf(u) = d /\ \A m \in DayMatched(d) : u < m}

\* the 16:00 slot of the gridded day before day d
PreviousClose(d) ==
    RowAt(aligned_df, Instant(MaxOf({e \in DaysIn(aligned_df) : e < d}), RTH_END))

\* the slots that are filled backward: no slot before them has a raw bar
FilledBackward == {u \in IndexSet(aligned_df) \ Matched : \A m \in Matched : u < m}

\* what a call with the raw bars of day d alone returns
AlignedAlone(d) ==
    filter_and_align(SelectSeq(raw_df, LAMBDA r : DateOf(r.timestamp_utc_ms) = d))

\* the statement of C33 as it is written: the leading gap of a day other than
\* the first carries the OHLC of the previous gridded day's 16:00 slot and
\* not that of the day's first observed bar, backward fill reaches only the
\* leading gap of the first day, and the bars of such a day are not those of
\* a call with that day alone.
C33_FillAcrossDays ==
    (pc = "aligned" /\ aligned_df # <<>>) =>
        LET first == MinOf(DaysIn(aligned_df))
        IN /\ \A d \in DaysIn(aligned_df) \ {first} : \A u \in LeadingGap(d) :
                 /\ OHLC(RowAt(aligned_df, u)) = OHLC(PreviousClose(d))
                 /\ DayMatched(d) # {} =>
                       /\ OHLC(RowAt(aligned_df, u)) # OHLC(RawAt(MinOf(DayMatched(d))))
                       /\ DayRows(aligned_df, d) # AlignedAlone(d)
           /\ Matched # {} => FilledBackward = LeadingGap(first)

\* C33: the fill runs over the whole grid of the call.  The leading gap of a
\* day other than the first carries the OHLC of the previous gridded day's
\* 16:00 slot; when a slot of an earlier day has a raw bar at exactly its
\* minute, that is not the OHLC of the day's own first bar and the day's bars
\* differ from those of a call with that day alone.  Backward fill reaches
\* the slots before the first slot of the whole call that has a raw bar at
\* exactly its minute: the leading gap of the first day when that day has
\* such a bar.
C33_FillAcrossDaysFromFirstBar ==
    (pc = "aligned" /\ aligned_df # <<>>) =>
        LET first == MinOf(DaysIn(aligned_df))
        IN /\ \A d \in DaysIn(aligned_df) \ {first} : \A u \in LeadingGap(d) :
                 /\ OHLC(RowAt(aligned_df, u)) = OHLC(PreviousClose(d))
                 /\ (DayMatched(d) # {} /\ \E m \in Matched : DateOf(m) < d) =>
                       /\ OHLC(RowAt(aligned_df, u)) # OHLC(RawAt(MinOf(DayMatched(d))))
                       /\ DayRows(aligned_df, d) # AlignedAlone(d)
           /\ DayMatched(first) # {} => FilledBackward = LeadingGap(first)
           /\ Matched # {} => \A u \in FilledBackward :
                 OHLC(RowAt(aligned_df, u)) = OHLC(RawAt(MinOf(Matched)))

\* two days aligned in one call, the first with a bar at 09:30 and the second
\* with its only bar at 15:59: the second day opens with the first day's bar
C33_Witness ==
    /\ pc = "aligned"
    /\ Len(raw_df) = 2
    /\ TimeOfDay(raw_df[1].timestamp_utc_ms) = RTH_START
    /\ TimeOfDay(raw_df[2].timestamp_utc_ms) = RTH_END - Minute
    /\ DateOf(raw_df[1].timestamp_utc_ms) < DateOf(raw_df[2].timestamp_utc_ms)
    /\ Len(aligned_df) = 2 * BARS_PER_DAY
    /\ OHLC(aligned_df[BARS_PER_DAY + 1]) = OHLC(raw_df[1])
    /\ OHLC(aligned_df[BARS_PER_DAY + 1]) # OHLC(raw_df[2])

-----------------------------------------------------------------------------
(* kafka_monitor_webapp.py: kafka_consumer_thread *)

\* the state of market_data_manager.py, which the web application leaves alone
dbVars == <<storeVars, alignVars, mergeVars, toolVars, pc>>

\* the loop over msg.headers(): a header whose value is empty is left out of
\* the dict, and headers.get("runId") is then None ("")
HeaderOf(h) == IF h.present /\ h.value # "" THEN h.value ELSE ""

\* the messages: the topic, the runId header, and what the branch of the
\* topic looks at; every number of the payload is the number of the message
HeaderValues == RunIds \cup {""}
TradeIds == {0, 1, 2}
Messages ==
    [topic : TOPICS, symbol : MsgSymbols,
     runId : [present : {TRUE}, value : HeaderValues] \cup {[present |-> FALSE, value |-> ""]},
     hasPosition : BOOLEAN, tradeId : TradeIds]

\* the fields only one branch reads are fixed in the messages of the others
Distinct(msg) ==
    /\ msg.topic # "sentio.positions.state.v1" => msg.hasPosition
    /\ msg.topic # "sentio.trades.executed.v1" => msg.tradeId = 0

\* "Track session": a new entry for a runId not in sessions, lastSeen else
TrackSession(run_id, n) ==
    IF run_id = "" THEN sessions
    ELSE IF sessions[run_id] = <<>>
    THEN [sessions EXCEPT ![run_id] = <<[firstSeen |-> n, lastSeen |-> n]>>]
    ELSE [sessions EXCEPT ![run_id] = <<[@[1] EXCEPT !.lastSeen = n]>>]

\* mutant: the consumer follows every session, auto-follow or not
AlwaysSwitches(run_id) == run_id # "" /\ active_session_id # run_id

\* "Auto-follow latest session": the test that switches the active session
Switches(run_id) == run_id # "" /\ auto_follow_latest /\ active_session_id # run_id

\* mutant: no message is filtered out
NeverSkipped(run_id, active) == FALSE

\* "Filter: Skip messages from inactive sessions"
Skipped(run_id, active) == run_id # "" /\ run_id # active

\* len(hist) > 500: hist[-500:]
LastPoints(hist) == IF Len(hist) > 500 THEN SubSeq(hist, Len(hist) - 499, Len(hist)) ELSE hist

\* one message that json.loads accepts goes through the loop body
Consume(msg) ==
    /\ message_count < MaxMessages
    /\ LET n == message_count + 1
           run_id == HeaderOf(msg.runId)
           switch == Switches(run_id)
           active == IF switch THEN run_id ELSE active_session_id
           skip == Skipped(run_id, active)
           prices == IF switch THEN NoPrices ELSE latest_prices
           positions == IF switch THEN NoPrices ELSE latest_positions
           trades == IF switch THEN <<>> ELSE recent_trades
           history == IF switch THEN NoPrices ELSE price_history
           known == msg.tradeId # 0 /\ msg.tradeId \in recent_trade_ids
       IN /\ message_count' = n
          /\ sessions' = TrackSession(run_id, n)
          /\ active_session_id' = active
          /\ connection_info' =
                [messageCount |-> IF skip THEN connection_info.messageCount ELSE n,
                 lastByTopic |-> [connection_info.lastByTopic EXCEPT ![msg.topic] = n]]
          /\ market_time' = IF skip THEN market_time ELSE <<[timestamp |-> n]>>
          /\ latest_prices' =
                IF ~skip /\ msg.topic = "sentio.prices.minute.v1"
                THEN [prices EXCEPT ![msg.symbol] = <<[close |-> n, timestamp |-> n]>>]
                ELSE prices
          /\ price_history' =
                IF ~skip /\ msg.topic = "sentio.prices.minute.v1"
                THEN [history EXCEPT ![msg.symbol] = LastPoints(Append(@, [tsET |-> n, c |-> n]))]
                ELSE history
          /\ latest_portfolio' =
                IF ~skip /\ msg.topic = "sentio.portfolio.minute.v1"
                THEN <<[equity |-> n, timestamp |-> n]>>
                ELSE latest_portfolio
          /\ latest_positions' =
                IF ~skip /\ msg.topic = "sentio.positions.state.v1"
                THEN [positions EXCEPT ![msg.symbol] =
                         IF msg.hasPosition THEN <<[shares |-> n, timestamp |-> n]>> ELSE <<>>]
                ELSE positions
          /\ recent_trades' =
                IF ~skip /\ msg.topic = "sentio.trades.executed.v1" /\ ~known
                THEN <<[tradeId |-> msg.tradeId, price |-> n, timestamp |-> n]>> \o trades
                ELSE trades
          /\ recent_trade_ids' =
                IF ~skip /\ msg.topic = "sentio.trades.executed.v1" /\ ~known
                THEN recent_trade_ids \cup {msg.tradeId}
                ELSE recent_trade_ids
          /\ heartbeat_status' =
                IF ~skip /\ msg.topic = "sentio.heartbeat.v1"
                THEN [status |-> "alive", lastUpdate |-> n]
                ELSE heartbeat_status
    /\ UNCHANGED <<auto_follow_latest, response, replayVars, dbVars>>

-----------------------------------------------------------------------------
(* kafka_monitor_webapp.py: event_stream, switch_session, enable_auto_follow *)

\* "Cleanup stale sessions": the sessions last seen more than
\* SESSION_TIMEOUT_SECONDS ago, which are those last seen at or before some
\* message, are deleted
CleanupSessions(cutoff) ==
    /\ \E r \in RunIds : sessions[r] # <<>> /\ sessions[r][1].lastSeen <= cutoff
    /\ sessions' = [r \in RunIds |->
                       IF sessions[r] # <<>> /\ sessions[r][1].lastSeen <= cutoff
                       THEN <<>> ELSE sessions[r]]
    /\ UNCHANGED <<displayVars, connection_info, message_count, active_session_id,
                   auto_follow_latest, response, replayVars, dbVars>>

\* POST /api/switch-session/<session_id>
switch_session(session_id) ==
    IF session_id \in RunIds /\ sessions[session_id] # <<>>
    THEN /\ active_session_id' = session_id
         /\ auto_follow_latest' = FALSE
         /\ latest_prices' = NoPrices
         /\ latest_positions' = NoPrices
         /\ latest_portfolio' = <<>>
         /\ recent_trades' = <<>>
         /\ price_history' = NoPrices
         /\ response' = [handler |-> "switch_session", arg |-> session_id,
                          status |-> 200, body |-> session_id]
         /\ UNCHANGED <<recent_trade_ids, heartbeat_status, market_time, connection_info,
                        message_count, sessions, replayVars, dbVars>>
    ELSE /\ response' = [handler |-> "switch_session", arg |-> session_id,
                          status |-> 404, body |-> "Session not found"]
         /\ UNCHANGED <<displayVars, sessionVars, replayVars, dbVars>>

\* POST /api/auto-follow
enable_auto_follow ==
    /\ auto_follow_latest' = TRUE
    /\ response' = [handler |-> "enable_auto_follow", arg |-> "",
                     status |-> 200, body |-> "success"]
    /\ UNCHANGED <<displayVars, connection_info, message_count, sessions,
                   active_session_id, replayVars, dbVars>>

\* the session ids of the requests: the runIds, and one no publisher uses
SessionIds == RunIds \cup {"run-x"}

InitWeb ==
    /\ StoreIdle /\ AlignIdle /\ MergeIdle /\ ToolsIdle /\ WebIdle
    /\ pc = "init"

NextDashboard ==
    \/ \E msg \in Messages : Distinct(msg) /\ Consume(msg)
    \/ \E cutoff \in 1 .. MaxMessages : cutoff <= message_count /\ CleanupSessions(cutoff)
    \/ \E session_id \in SessionIds : switch_session(session_id)
    \/ enable_auto_follow

SpecDashboard == InitWeb /\ [][NextDashboard]_vars

-----------------------------------------------------------------------------
(* Properties of the dashboard's sessions *)

\* the step is one message going through the consumer's loop
Consumed == message_count' = message_count + 1

\* the runId of the message processed last ("" when it had none)
LastRunId ==
    IF \E r \in RunIds : sessions[r] # <<>> /\ sessions[r][1].lastSeen = message_count
    THEN CHOOSE r \in RunIds : sessions[r] # <<>> /\ sessions[r][1].lastSeen = message_count
    ELSE ""

\* C34: a message whose runId is present and differs from active_session_id
\* after the auto-follow step leaves latest_prices, price_history,
\* latest_portfolio, latest_positions, recent_trades, heartbeat_status and
\* market_time as they were.  (The runId is the one of the headers dict: a
\* header with an empty value is not in it.)
C34_SessionFilter ==
    [][(Consumed /\ LastRunId' # "" /\ LastRunId' # active_session_id') =>
          UNCHANGED <<latest_prices, price_history, latest_portfolio, latest_positions,
                      recent_trades, heartbeat_status, market_time>>]_vars

\* with "run-a" selected by hand and a price of it displayed, a message of
\* "run-b" has been processed and filtered out
C34_Witness ==
    /\ ~auto_follow_latest
    /\ active_session_id = "run-a"
    /\ LastRunId = "run-b"
    /\ connection_info.messageCount < message_count
    /\ \E s \in MsgSymbols : latest_prices[s] # <<>>

\* the session detected last among those in sessions
Newest == CHOOSE r \in RunIds :
              /\ sessions[r] # <<>>
              /\ \A q \in RunIds : sessions[q] # <<>> =>
                     sessions[q][1].firstSeen <= sessions[r][1].firstSeen

\* C35: while auto_follow_latest is true, after each processed message
\* active_session_id is the session detected last; the active session
\* changes, and prices, positions, trades and price history are cleared, only
\* when a new session appears, not when a message of an older session comes.
C35_FollowsNewest ==
    /\ [][(Consumed /\ auto_follow_latest' /\ LastRunId' # "") =>
             active_session_id' = Newest']_vars
    /\ [][(Consumed /\ auto_follow_latest /\ active_session_id' # active_session_id) =>
             \E r \in RunIds : sessions[r] = <<>> /\ sessions'[r] # <<>>]_vars

\* the step is a request to switch_session
Switched ==
    /\ response'.handler = "switch_session"
    /\ message_count' = message_count /\ sessions' = sessions

\* C36: switch_session(id) with id in sessions makes id the active session,
\* disables auto-follow and clears prices, positions, portfolio, trades and
\* price history; with another id it returns 404 and changes nothing.  While
\* auto-follow is disabled no message changes active_session_id, and only
\* enable_auto_follow enables it again.
C36_ManualSwitch ==
    /\ [][Switched =>
             IF response'.arg \in RunIds /\ sessions[response'.arg] # <<>>
             THEN /\ response'.status = 200
                  /\ active_session_id' = response'.arg
                  /\ ~auto_follow_latest'
                  /\ latest_prices' = NoPrices /\ latest_positions' = NoPrices
                  /\ latest_portfolio' = <<>> /\ recent_trades' = <<>>
                  /\ price_history' = NoPrices
             ELSE /\ response'.status = 404
                  /\ UNCHANGED <<displayVars, sessionVars, replayVars>>]_vars
    /\ [][(~auto_follow_latest /\ Consumed) =>
             (active_session_id' = active_session_id /\ ~auto_follow_latest')]_vars
    /\ [][(~auto_follow_latest /\ auto_follow_latest') =>
             response'.handler = "enable_auto_follow"]_vars

\* "run-a" was selected by hand while its price and the portfolio were
\* displayed; a message of "run-b" came afterwards
C36_Witness ==
    /\ response.handler = "switch_session" /\ response.status = 200
    /\ response.arg = "run-a"
    /\ active_session_id = "run-a" /\ ~auto_follow_latest
    /\ LastRunId = "run-b"
    /\ connection_info.messageCount < message_count
    /\ latest_prices = NoPrices /\ latest_portfolio = <<>>
    /\ recent_trade_ids # {}

\* a request for a session that is not in sessions has been answered
C36_WitnessNotFound ==
    /\ response.handler = "switch_session" /\ response.status = 404
    /\ response.arg \in RunIds
    /\ message_count = MaxMessages

-----------------------------------------------------------------------------
(* kafka_monitor_webapp.py: the replay threads *)

\* a thread that was just started: which function it runs, where it is, the
\* process it launched and the process it waits on (0 is none)
NewThread(kind, test_date) ==
    [kind |-> kind, pc |-> "begin", test_date |-> test_date, proc |-> 0, waits_on |-> 0]

At(i, kind, where) == threads[i].kind = kind /\ threads[i].pc = where

\* the except branch of start_replay_background
StartFailed(i, e) ==
    /\ replay_state' = [replay_state EXCEPT !.status = "error", !.error = e]
    /\ threads' = [threads EXCEPT ![i].pc = "done"]

\* start_replay_background, first block under data_lock
StartBegin(i) ==
    /\ At(i, "start", "begin")
    /\ replay_state' = [status |-> "starting", selectedDate |-> threads[i].test_date,
                        error |-> "none"]
    /\ latest_prices' = NoPrices
    /\ latest_portfolio' = <<>>
    /\ latest_positions' = NoPrices
    /\ recent_trades' = <<>>
    /\ market_time' = <<>>
    /\ threads' = [threads EXCEPT ![i].pc = "kafka"]
    /\ UNCHANGED <<price_history, recent_trade_ids, heartbeat_status, sessionVars,
                   replay_process, processes, response, dbVars>>

\* subprocess.run([... "up", "-d", "kafka"], timeout=30) and time.sleep(5)
StartKafka(i, raises) ==
    /\ At(i, "start", "kafka")
    /\ IF raises THEN StartFailed(i, "TimeoutExpired")
       ELSE /\ threads' = [threads EXCEPT ![i].pc = "popen"]
            /\ UNCHANGED replay_state
    /\ UNCHANGED <<displayVars, sessionVars, replay_process, processes, response, dbVars>>

\* replay_process = subprocess.Popen([... "up", "sidecar"])
StartPopen(i, raises) ==
    /\ At(i, "start", "popen")
    /\ IF raises
       THEN /\ StartFailed(i, "OSError")
            /\ UNCHANGED <<replay_process, processes>>
       ELSE /\ replay_process' = i
            /\ processes' = processes \cup {i}
            /\ threads' = [threads EXCEPT ![i].pc = "running", ![i].proc = i]
            /\ UNCHANGED replay_state
    /\ UNCHANGED <<displayVars, sessionVars, response, dbVars>>

\* with data_lock: replay_state["status"] = "running"
StartRunning(i) ==
    /\ At(i, "start", "running")
    /\ replay_state' = [replay_state EXCEPT !.status = "running"]
    /\ threads' = [threads EXCEPT ![i].pc = "wait"]
    /\ UNCHANGED <<displayVars, sessionVars, replay_process, processes, response, dbVars>>

\* replay_process.wait(): the global is read when the call is made; None has
\* no wait (AttributeError)
StartWait(i) ==
    /\ At(i, "start", "wait")
    /\ IF replay_process = 0 THEN StartFailed(i, "AttributeError")
       ELSE /\ threads' = [threads EXCEPT ![i].pc = "waiting", ![i].waits_on = replay_process]
            /\ UNCHANGED replay_state
    /\ UNCHANGED <<displayVars, sessionVars, replay_process, processes, response, dbVars>>

\* wait() returns when that process has ended; then, under data_lock,
\* "running" becomes "completed"
StartCompleted(i) ==
    /\ At(i, "start", "waiting")
    /\ threads[i].waits_on \notin processes
    /\ replay_state' = IF replay_state.status = "running"
                       THEN [replay_state EXCEPT !.status = "completed"]
                       ELSE replay_state
    /\ threads' = [threads EXCEPT ![i].pc = "done"]
    /\ UNCHANGED <<displayVars, sessionVars, replay_process, processes, response, dbVars>>

\* stop_replay_background, the block under data_lock
StopBegin(i) ==
    /\ At(i, "stop", "begin")
    /\ replay_state' = [replay_state EXCEPT !.status = "stopped"]
    /\ threads' = [threads EXCEPT ![i].pc = "terminate"]
    /\ UNCHANGED <<displayVars, sessionVars, replay_process, processes, response, dbVars>>

\* if replay_process: terminate(), wait(timeout=10), replay_process = None;
\* wait raises TimeoutExpired when the process has not ended in time, and the
\* except branch is the end of the function
StopTerminate(i, raises) ==
    /\ At(i, "stop", "terminate")
    /\ IF replay_process = 0
       THEN /\ ~raises
            /\ threads' = [threads EXCEPT ![i].pc = "down"]
            /\ UNCHANGED <<replay_process, processes>>
       ELSE IF raises
       THEN /\ threads' = [threads EXCEPT ![i].pc = "done"]
            /\ UNCHANGED <<replay_process, processes>>
       ELSE /\ processes' = processes \ {replay_process}
            /\ replay_process' = 0
            /\ threads' = [threads EXCEPT ![i].pc = "down"]
    /\ UNCHANGED <<displayVars, sessionVars, replay_state, response, dbVars>>

\* subprocess.run([... "down"], timeout=30): the containers of the stack
\* stop, and with them every "up sidecar" process that is attached to one
StopDown(i, raises) ==
    /\ At(i, "stop", "down")
    /\ processes' = IF raises THEN processes ELSE {}
    /\ threads' = [threads EXCEPT ![i].pc = "done"]
    /\ UNCHANGED <<displayVars, sessionVars, replay_state, replay_process, response, dbVars>>

\* the sidecar finishes its replay and its process ends
ProcessExits(proc) ==
    /\ proc \in processes
    /\ processes' = processes \ {proc}
    /\ UNCHANGED <<displayVars, sessionVars, replay_state, replay_process, threads,
                   response, dbVars>>

\* the dates of the requests: 0 is a request without testDate
TestDates == {0, 1}

\* replay_state["status"] in ["starting", "running"]
AlreadyRunning == replay_state.status \in {"starting", "running"}

\* POST /api/replay/start
api_replay_start(test_date) ==
    /\ Len(threads) < MaxThreads
    /\ IF test_date = 0
       THEN /\ response' = [handler |-> "api_replay_start", arg |-> "", status |-> 400,
                            body |-> "No test date provided"]
            /\ UNCHANGED threads
       ELSE IF AlreadyRunning
       THEN /\ response' = [handler |-> "api_replay_start", arg |-> "", status |-> 400,
                            body |-> "Replay already running"]
            /\ UNCHANGED threads
       ELSE /\ response' = [handler |-> "api_replay_start", arg |-> "", status |-> 200,
                            body |-> "starting"]
            /\ threads' = Append(threads, NewThread("start", test_date))
    /\ UNCHANGED <<displayVars, sessionVars, replay_state, replay_process, processes, dbVars>>

\* POST /api/replay/stop
api_replay_stop ==
    /\ Len(threads) < MaxThreads
    /\ threads' = Append(threads, NewThread("stop", 0))
    /\ response' = [handler |-> "api_replay_stop", arg |-> "", status |-> 200,
                    body |-> "stopping"]
    /\ UNCHANGED <<displayVars, sessionVars, replay_state, replay_process, processes, dbVars>>

NextReplay ==
    \/ \E test_date \in TestDates : api_replay_start(test_date)
    \/ api_replay_stop
    \/ \E i \in DOMAIN threads : StartBegin(i)
    \/ \E i \in DOMAIN threads, raises \in BOOLEAN : StartKafka(i, raises)
    \/ \E i \in DOMAIN threads, raises \in BOOLEAN : StartPopen(i, raises)
    \/ \E i \in DOMAIN threads : StartRunning(i)
    \/ \E i \in DOMAIN threads : StartWait(i)
    \/ \E i \in DOMAIN threads : StartCompleted(i)
    \/ \E i \in DOMAIN threads : StopBegin(i)
    \/ \E i \in DOMAIN threads, raises \in BOOLEAN : StopTerminate(i, raises)
    \/ \E i \in DOMAIN threads, raises \in BOOLEAN : StopDown(i, raises)
    \/ \E proc \in processes : ProcessExits(proc)

SpecReplay == InitWeb /\ [][NextReplay]_vars

\* the start threads that have not finished
Alive == {i \in DOMAIN threads : threads[i].kind = "start" /\ threads[i].pc # "done"}

NoStop == \A i \in DOMAIN threads : threads[i].kind # "stop"

\* C37: under any interleaving of /api/replay/start requests at most one
\* replay is in progress: a request that arrives while another replay is
\* starting or running is rejected, and no two start_replay_background
\* threads have a replay process launched at the same time.
C37_SingleReplay ==
    NoStop => (Cardinality(Alive) <= 1 /\ Cardinality(processes) <= 1)

\* the stop threads that have finished with no start request accepted since
\* they were started
FinishedStops ==
    {i \in DOMAIN threads :
        /\ At(i, "stop", "done")
        /\ \A j \in DOMAIN threads : j > i => threads[j].kind # "start"}

\* C38: once a stop has finished, replay_state["status"] is "stopped" and
\* stays so until a new start request is accepted, and no replay process
\* launched by a start thread that was there before the stop is running.
C38_StopWins ==
    \A i \in FinishedStops :
        /\ replay_state.status = "stopped"
        /\ \A j \in 1 .. (i - 1) :
              threads[j].kind = "start" => threads[j].proc \notin processes

====
